---------------------------- MODULE Spec2Model ----------------------------
(***************************************************************************)
(* A model of gw2-build-decoder: the chat-link decoder (src/src/decoder.ts),*)
(* the encoder (src/src/encoder.ts), the binary cursor                      *)
(* (src/src/binary-view.ts) and the callers' use of them.                   *)
(*                                                                         *)
(* A chat link is a sequence of one-character strings, a buffer a sequence *)
(* of bytes (buffer[k + 1] is the byte at offset k).  decode and encode are*)
(* operators that compute what the code computes, the errors they throw    *)
(* and the mapper lookups they issue, in order.                            *)
(***************************************************************************)
EXTENDS Integers, Sequences, FiniteSets, TLC

(***************************************************************************)
(* Program constants (src/src/constants.ts).                               *)
(***************************************************************************)
OFFICIAL_TYPE_INDICATOR == 13
OFFICIAL_CODE_LENGTH == 44
AQUATIC_OFFSET == 2
SKILL_COUNT == 5
BYTES_PER_SKILL == 4

(***************************************************************************)
(* Bounds of the model.                                                    *)
(***************************************************************************)
MaxLegend == 2      \* legend bytes range over 0..MaxLegend
MaxTrailer == 2     \* trailer count bytes range over 0..MaxTrailer
(* The number of operations made on the cursors of one buffer.             *)
MaxCursorOps == 4

(***************************************************************************)
(* Small helpers.                                                          *)
(***************************************************************************)
Range(s) == {s[i] : i \in 1..Len(s)}

Min(a, b) == IF a < b THEN a ELSE b

RECURSIVE BitOr(_, _)
BitOr(a, b) ==
  IF a = 0 THEN b
  ELSE IF b = 0 THEN a
  ELSE (IF a % 2 = 1 \/ b % 2 = 1 THEN 1 ELSE 0) + 2 * BitOr(a \div 2, b \div 2)

(***************************************************************************)
(* Errors (src/unnamed/part_000).  A BuildCodeError carries a code and an  *)
(* optional cause; RangeError, TypeError and the mapper's own error are the*)
(* other things a call can reject with.                                    *)
(***************************************************************************)
BuildCodeErrorCode ==
  {"INVALID_LENGTH", "INVALID_TYPE", "INVALID_PROFESSION",
   "PALETTE_LOOKUP_FAILED", "BASE64_DECODE_FAILED"}

BuildCodeError(code, cause) ==
  [class |-> "BuildCodeError", code |-> code, cause |-> cause]

RangeError == [class |-> "RangeError", code |-> "none", cause |-> "none"]
TypeError == [class |-> "TypeError", code |-> "none", cause |-> "none"]
MapperError == [class |-> "MapperError", code |-> "none", cause |-> "none"]
NoError == [class |-> "none", code |-> "none", cause |-> "none"]

(***************************************************************************)
(* Base64, as Node's Buffer does it.  Decoding (Buffer.from(s, 'base64'))  *)
(* never throws: characters outside the alphabet are skipped, '-' and '_'  *)
(* count as '+' and '/', decoding stops at the first '=', and a dangling   *)
(* group yields the whole bytes it holds.                                  *)
(***************************************************************************)
B64Chars ==
  << "A","B","C","D","E","F","G","H","I","J","K","L","M","N","O","P",
     "Q","R","S","T","U","V","W","X","Y","Z","a","b","c","d","e","f",
     "g","h","i","j","k","l","m","n","o","p","q","r","s","t","u","v",
     "w","x","y","z","0","1","2","3","4","5","6","7","8","9","+","/" >>

B64Alphabet == Range(B64Chars)

B64Index == [c \in B64Alphabet |-> (CHOOSE i \in 1..64 : B64Chars[i] = c) - 1]

unbase64(c) ==
  IF c \in B64Alphabet THEN B64Index[c]
  ELSE IF c = "-" THEN 62
  ELSE IF c = "_" THEN 63
  ELSE 64

isBase64Digit(c) == c \in B64Alphabet \/ c = "-" \/ c = "_"

(* The 6-bit values of the characters before the first '='.                *)
Base64Values(s) ==
  LET padding == { i \in 1..Len(s) : s[i] = "=" }
      stop == IF padding = {} THEN Len(s)
              ELSE (CHOOSE i \in padding : \A j \in padding : i <= j) - 1
      digits == SelectSeq(SubSeq(s, 1, stop), isBase64Digit)
  IN [i \in 1..Len(digits) |-> unbase64(digits[i])]

(* Four values give three bytes; a dangling group of two or three values   *)
(* gives one or two.                                                       *)
Base64Groups(v) ==
  [i \in 1..((Len(v) * 3) \div 4) |->
     LET g == 4 * ((i - 1) \div 3)
         r == (i - 1) % 3
     IN IF r = 0 THEN v[g + 1] * 4 + (v[g + 2] \div 16)
        ELSE IF r = 1 THEN (v[g + 2] % 16) * 16 + (v[g + 3] \div 4)
        ELSE (v[g + 3] % 4) * 64 + v[g + 4]]

Base64Decode(s) == Base64Groups(Base64Values(s))

(* Three bytes give four characters; the last group is padded with '='.    *)
Base64Encode(b) ==
  [j \in 1..(4 * ((Len(b) + 2) \div 3)) |->
     LET g == 3 * ((j - 1) \div 4)
         r == (j - 1) % 4
         b1 == b[g + 1]
         b2 == IF g + 2 <= Len(b) THEN b[g + 2] ELSE 0
         b3 == IF g + 3 <= Len(b) THEN b[g + 3] ELSE 0
     IN IF r = 0 THEN B64Chars[(b1 \div 4) + 1]
        ELSE IF r = 1 THEN B64Chars[(b1 % 4) * 16 + (b2 \div 16) + 1]
        ELSE IF r = 2
        THEN (IF g + 2 > Len(b) THEN "="
              ELSE B64Chars[(b2 % 16) * 4 + (b3 \div 64) + 1])
        ELSE (IF g + 3 > Len(b) THEN "=" ELSE B64Chars[(b3 % 64) + 1])]

(***************************************************************************)
(* The chat-link wrapper.                                                  *)
(***************************************************************************)
startsWithWrapper(s) == Len(s) >= 2 /\ s[1] = "[" /\ s[2] = "&"

StripWrapperOffByOne(chatLink) ==
  IF startsWithWrapper(chatLink)
  THEN SubSeq(chatLink, 4, Len(chatLink) - 1)
  ELSE chatLink

StripWrapper(chatLink) ==
  IF startsWithWrapper(chatLink)
  THEN SubSeq(chatLink, 3, Len(chatLink) - 1)
  ELSE chatLink

(* The wrapper with its closing bracket forgotten, then the wrapper.       *)
WrapInChatLinkUnclosed(base64) == <<"[", "&">> \o base64

WrapInChatLink(base64) == <<"[", "&">> \o base64 \o <<"]">>


(***************************************************************************)
(* The palette mapper is supplied by the caller (PaletteMapper,            *)
(* src/src/types.ts).  A lookup resolves with a number or rejects with the *)
(* mapper's own error.  Three mappers:                                     *)
(*   "mock"         the tests' MockPaletteMapper: 0 <-> 0, i <-> i + OFFSET*)
(*   "byProfession" i <-> i + 1000 * profession, 0 included (so index 0    *)
(*                  maps to a non-zero id); the two directions are inverse *)
(*   "partial"      the mock, but rejecting index 0, every index that is a *)
(*                  multiple of 7, the ids of those indices and every id   *)
(*                  below OFFSET, undefined included                       *)
(* An array element that is not there is `undefined`; a mapper that        *)
(* subtracts from it answers NaN.  Both are numbers no id, index or        *)
(* difference of the model equals.                                         *)
(***************************************************************************)
OFFSET == 10000

undefined == -1

NaN == -2

(* a - b of JavaScript, for a number or undefined on the left.             *)
minus(a, b) == IF a = undefined THEN NaN ELSE a - b

Mappers == {"mock", "byProfession", "partial"}

Resolved(v) == [ok |-> TRUE, val |-> v]
Rejected == [ok |-> FALSE, val |-> 0]

paletteToSkill(mapper, profession, paletteIndex) ==
  CASE mapper = "mock" ->
         IF paletteIndex = 0 THEN Resolved(0)
         ELSE Resolved(paletteIndex + OFFSET)
    [] mapper = "byProfession" -> Resolved(paletteIndex + 1000 * profession)
    [] OTHER ->
         IF paletteIndex % 7 = 0 THEN Rejected
         ELSE Resolved(paletteIndex + OFFSET)

skillToPalette(mapper, profession, skillId) ==
  CASE mapper = "mock" ->
         IF skillId = 0 THEN Resolved(0) ELSE Resolved(minus(skillId, OFFSET))
    [] mapper = "byProfession" -> Resolved(minus(skillId, 1000 * profession))
    [] OTHER ->
         IF skillId = undefined \/ skillId < OFFSET
              \/ (skillId - OFFSET) % 7 = 0
         THEN Rejected
         ELSE Resolved(skillId - OFFSET)

(* A lookup as the codec makes it: `await paletteMapper.f(...)`, the call  *)
(* is suspended until the promise has settled (awaited).                   *)
PaletteCall(profession, paletteIndex) ==
  [fn |-> "paletteToSkill", profession |-> profession, arg |-> paletteIndex,
   awaited |-> TRUE]

SkillCall(profession, skillId) ==
  [fn |-> "skillToPalette", profession |-> profession, arg |-> skillId,
   awaited |-> TRUE]

(***************************************************************************)
(* BinaryView (src/src/binary-view.ts): a DataView over the buffer and a   *)
(* position.  DataView reads outside the buffer throw a RangeError.        *)
(***************************************************************************)
InBounds(buffer, pos, n) == pos >= 0 /\ pos + n <= Len(buffer)

getUint8(buffer, pos) == buffer[pos + 1]

getUint16LE(buffer, pos) == buffer[pos + 1] + 256 * buffer[pos + 2]

(* A cursor is its position; the buffer is shared.  A read yields the      *)
(* cursor after it, the value, and whether the DataView threw.             *)
BinaryView(offset) == [pos |-> offset]

position(view) == view.pos

CursorResult(view, value, threw) == [view |-> view, value |-> value, threw |-> threw]

(* peekByte(offset): getUint8(this.pos + offset)                           *)
peekByte(buffer, view, offset) ==
  IF InBounds(buffer, view.pos + offset, 1)
  THEN CursorResult(view, getUint8(buffer, view.pos + offset), FALSE)
  ELSE CursorResult(view, 0, TRUE)

(* readByte(): getUint8(this.pos++); the increment comes before the read.  *)
readByte(buffer, view) ==
  IF InBounds(buffer, view.pos, 1)
  THEN CursorResult([pos |-> view.pos + 1], getUint8(buffer, view.pos), FALSE)
  ELSE CursorResult([pos |-> view.pos + 1], 0, TRUE)

(* A variant of readUInt16LE that advances by one byte.                    *)
readUInt16LEByOne(buffer, view) ==
  IF InBounds(buffer, view.pos, 2)
  THEN CursorResult([pos |-> view.pos + 1], getUint16LE(buffer, view.pos), FALSE)
  ELSE CursorResult(view, 0, TRUE)

(* readUInt16LE(): getUint16(this.pos, true), then pos += 2.               *)
readUInt16LE(buffer, view) ==
  IF InBounds(buffer, view.pos, 2)
  THEN CursorResult([pos |-> view.pos + 2], getUint16LE(buffer, view.pos), FALSE)
  ELSE CursorResult(view, 0, TRUE)

skip(view, bytes) == [pos |-> view.pos + bytes]

(* slice(offset): a new BinaryView over the same buffer.                   *)
slice(view, offset) == BinaryView(view.pos + offset)

(***************************************************************************)
(* The records decode returns (BuildCode, src/src/types.ts).  An optional  *)
(* field that is absent is the empty sequence; weapons, skillVariants and  *)
(* inactiveSkills, when present, are a one-element sequence holding the    *)
(* array (so that an empty array is not an absent field).                  *)
(***************************************************************************)
SkillNames ==
  {"heal", "utility1", "utility2", "utility3", "elite",
   "aquaticHeal", "aquaticUtility1", "aquaticUtility2", "aquaticUtility3",
   "aquaticElite"}

EmptySkills == [k \in SkillNames |-> 0]

Absent == <<>>
Present(v) == <<v>>

NoProfessionSpecific == [type |-> "none"]
RangerData(pets) == [type |-> "ranger", pets |-> pets]
RevenantData(legends, inactiveSkills) ==
  [type |-> "revenant", legends |-> legends, inactiveSkills |-> inactiveSkills]
EngineerData(toolbeltSkills) ==
  [type |-> "engineer", toolbeltSkills |-> toolbeltSkills]

BuildCode(profession, specializations, skills, professionSpecific, weapons, skillVariants) ==
  [profession |-> profession, specializations |-> specializations,
   skills |-> skills, professionSpecific |-> professionSpecific,
   weapons |-> weapons, skillVariants |-> skillVariants]

NoBuild == BuildCode(0, <<>>, EmptySkills, NoProfessionSpecific, Absent, Absent)

(* The outcome of a call: a value, or the error it rejected with, the      *)
(* mapper lookups it issued, in order, and the awaits of its own async     *)
(* functions it went through (joins, see Join).                            *)
Returned(value, calls) ==
  [status |-> "ok", value |-> value, error |-> NoError, calls |-> calls,
   joins |-> <<>>]
Thrown(error, calls) ==
  [status |-> "error", value |-> NoBuild, error |-> error, calls |-> calls,
   joins |-> <<>>]
NotCalled ==
  [status |-> "none", value |-> NoBuild, error |-> NoError, calls |-> <<>>,
   joins |-> <<>>]

(* decode and validate are async functions: they await every lookup, and   *)
(* they await the promise of each async function of their own they call    *)
(* (await decodeSkills(...), await decodeRevenant(...), await              *)
(* this.validateSkills(...)), and return to the event loop each time.  An  *)
(* await of the second kind suspends the caller even when the function     *)
(* awaited made no lookup: Join(fn, after) is the await of fn's promise,   *)
(* reached when `after` lookups had been issued.  A call in flight is      *)
(* "pending": it has issued the lookups `calls`, has reached the joins     *)
(* `joins`, and awaits the one of them it reached last.                    *)
Join(fn, after) == [fn |-> fn, after |-> after]

Joined(out, joins) == [out EXCEPT !.joins = joins]

(* await fn(...): the caller goes on when the promise of fn has settled,   *)
(* with the value or the error `result`.                                   *)
awaited(fn, result) ==
  [result EXCEPT !.joins = Append(@, Join(fn, Len(result.calls)))]

Pending(calls) ==
  [status |-> "pending", value |-> NoBuild, error |-> NoError, calls |-> calls,
   joins |-> <<>>]

(***************************************************************************)
(* decode (src/src/decoder.ts).                                            *)
(***************************************************************************)

(* A variant of decodeSpecializations that keeps a pair whose id is 0 as an *)
(* empty placeholder.                                                      *)
RECURSIVE decodeSpecializationsPadded(_, _, _)
decodeSpecializationsPadded(buffer, pos, i) ==
  IF i >= 3 THEN <<>>
  ELSE LET specId == getUint8(buffer, pos)
           traitMix == getUint8(buffer, pos + 1)
           traits == <<traitMix % 4, (traitMix \div 4) % 4, (traitMix \div 16) % 4>>
       IN <<[id |-> specId, traits |-> traits]>>
            \o decodeSpecializationsPadded(buffer, pos + 2, i + 1)

(* The three (id, traits) pairs at bytes 2-7; a pair with id 0 is dropped. *)
RECURSIVE decodeSpecializations(_, _, _)
decodeSpecializations(buffer, pos, i) ==
  IF i >= 3 THEN <<>>
  ELSE LET specId == getUint8(buffer, pos)
           traitMix == getUint8(buffer, pos + 1)
           traits == <<traitMix % 4, (traitMix \div 4) % 4, (traitMix \div 16) % 4>>
           rest == decodeSpecializations(buffer, pos + 2, i + 1)
       IN IF specId # 0 THEN <<[id |-> specId, traits |-> traits]>> \o rest
          ELSE rest

(* The order in which decodeSkills assigns the ten u16 slots it reads.     *)
skillKeys ==
  <<"heal", "aquaticHeal", "utility1", "utility2", "utility3",
    "aquaticUtility1", "aquaticUtility2", "aquaticUtility3",
    "elite", "aquaticElite">>

(* The interleaved order of the wire format, as the encoder writes it.     *)
InterleavedSkillKeys ==
  <<"heal", "aquaticHeal", "utility1", "aquaticUtility1", "utility2",
    "aquaticUtility2", "utility3", "aquaticUtility3", "elite",
    "aquaticElite">>

(* The same list, as decodeRevenant repeats it.                            *)
revenantSkillKeys ==
  <<"heal", "aquaticHeal", "utility1", "utility2", "utility3",
    "aquaticUtility1", "aquaticUtility2", "aquaticUtility3",
    "elite", "aquaticElite">>

SkillsState(pos) ==
  [status |-> "ok", skills |-> EmptySkills, error |-> NoError,
   calls |-> <<>>, pos |-> pos]

(* The loop over the skill keys: read a u16, map it unless it is 0; a      *)
(* mapper failure is wrapped in PALETTE_LOOKUP_FAILED.                     *)
RECURSIVE readSkillSlots(_, _, _, _, _)
readSkillSlots(buffer, profession, mapper, keys, acc) ==
  IF keys = <<>> THEN acc
  ELSE IF ~InBounds(buffer, acc.pos, 2)
  THEN [acc EXCEPT !.status = "error", !.error = RangeError]
  ELSE LET paletteIndex == getUint16LE(buffer, acc.pos)
           read == [acc EXCEPT !.pos = @ + 2]
       IN IF paletteIndex = 0
          THEN readSkillSlots(buffer, profession, mapper, Tail(keys), read)
          ELSE LET r == paletteToSkill(mapper, profession, paletteIndex)
                   called == [read EXCEPT
                                !.calls = Append(@, PaletteCall(profession, paletteIndex))]
               IN IF r.ok
                  THEN readSkillSlots(buffer, profession, mapper, Tail(keys),
                                      [called EXCEPT !.skills[Head(keys)] = r.val])
                  ELSE [called EXCEPT
                          !.status = "error",
                          !.error = BuildCodeError("PALETTE_LOOKUP_FAILED", "MapperError")]

decodeSkills(buffer, pos, profession, mapper) ==
  readSkillSlots(buffer, profession, mapper, skillKeys, SkillsState(pos))

(* A variant of readAltSkills that issues the three lookups together and   *)
(* awaits them as one: a lookup is issued before the one before it has     *)
(* settled, and a rejected lookup does not keep the later ones from being  *)
(* issued.                                                                 *)
RECURSIVE readAltSkillsTogether(_, _, _, _, _)
readAltSkillsTogether(buffer, pos, mapper, n, acc) ==
  IF n = 0 THEN acc
  ELSE IF ~InBounds(buffer, pos, 2)
  THEN [acc EXCEPT !.status = "error", !.error = RangeError]
  ELSE LET paletteIndex == getUint16LE(buffer, pos)
           r == paletteToSkill(mapper, 9, paletteIndex)
           called == [acc EXCEPT
                        !.calls = Append(@, [PaletteCall(9, paletteIndex)
                                               EXCEPT !.awaited = (n = 1)])]
       IN readAltSkillsTogether(buffer, pos + 2, mapper, n - 1,
            IF r.ok /\ acc.status = "ok"
            THEN [called EXCEPT !.vals = Append(@, r.val)]
            ELSE [called EXCEPT !.status = "error", !.error = MapperError])

(* The three inactive-legend slots: each is read and handed to the mapper  *)
(* as it is, zero included, outside any try block.                         *)
RECURSIVE readAltSkills(_, _, _, _, _)
readAltSkills(buffer, pos, mapper, n, acc) ==
  IF n = 0 THEN acc
  ELSE IF ~InBounds(buffer, pos, 2)
  THEN [acc EXCEPT !.status = "error", !.error = RangeError]
  ELSE LET paletteIndex == getUint16LE(buffer, pos)
           r == paletteToSkill(mapper, 9, paletteIndex)
           called == [acc EXCEPT !.calls = Append(@, PaletteCall(9, paletteIndex))]
       IN IF r.ok
          THEN readAltSkills(buffer, pos + 2, mapper, n - 1,
                             [called EXCEPT !.vals = Append(@, r.val)])
          ELSE [called EXCEPT !.status = "error", !.error = MapperError]

(* The flip branch of decodeRevenant: an alt value replaces the primary    *)
(* utility only when it is non-zero.                                       *)
flipSkills(skills, altSkills) ==
  [skills EXCEPT
     !.utility1 = IF altSkills[1] # 0 THEN altSkills[1] ELSE @,
     !.utility2 = IF altSkills[2] # 0 THEN altSkills[2] ELSE @,
     !.utility3 = IF altSkills[3] # 0 THEN altSkills[3] ELSE @]

(* With both legends set, the alt skills are the inactive skills unless    *)
(* all three are 0.                                                        *)
inactiveSkillsOf(altSkills) ==
  IF altSkills[1] # 0 \/ altSkills[2] # 0 \/ altSkills[3] # 0
  THEN Present(altSkills) ELSE Absent

(* decodeRevenant: view is at viewPos, profSpecView at profSpecStart.      *)
(* With no first legend it awaits decodeSkills (decoder.ts:310).           *)
(* Yields [status, skills, professionSpecific, error, calls, joins].       *)
decodeRevenant(buffer, viewPos, profSpecStart, mapper, offset) ==
  LET profSpecPos == profSpecStart + offset
      failed(error, calls, joins) ==
        [status |-> "error", skills |-> EmptySkills,
         professionSpecific |-> NoProfessionSpecific,
         error |-> error, calls |-> calls, joins |-> joins]
  IN IF ~InBounds(buffer, profSpecPos, 2) THEN failed(RangeError, <<>>, <<>>)
     ELSE
       LET legend1Byte == getUint8(buffer, profSpecPos)
           legend2Byte == getUint8(buffer, profSpecPos + 1)
           main == IF legend1Byte # 0
                   THEN readSkillSlots(buffer, 9, mapper, revenantSkillKeys,
                                       SkillsState(viewPos))
                   ELSE decodeSkills(buffer, viewPos, 9, mapper)
           joins == IF legend1Byte # 0 THEN <<>>
                    ELSE <<Join("decodeSkills", Len(main.calls))>>
       IN IF main.status # "ok" THEN failed(main.error, main.calls, joins)
          ELSE IF legend2Byte = 0
          THEN [status |-> "ok", skills |-> main.skills,
                professionSpecific |-> RevenantData(<<legend1Byte>>, Absent),
                error |-> NoError, calls |-> main.calls, joins |-> joins]
          ELSE
            LET revSkillOffset == IF offset # 0 THEN 6 ELSE 2
                altPos == profSpecPos + offset + 2 + revSkillOffset
                alt == readAltSkills(buffer, altPos, mapper, 3,
                         [status |-> "ok", vals |-> <<>>, error |-> NoError,
                          calls |-> main.calls])
                altSkills == alt.vals
            IN IF alt.status # "ok" THEN failed(alt.error, alt.calls, joins)
               ELSE IF legend1Byte = 0
               THEN [status |-> "ok",
                     skills |-> flipSkills(main.skills, altSkills),
                     professionSpecific |->
                       RevenantData(<<legend2Byte>>,
                                    Present(<<main.skills.utility1,
                                              main.skills.utility2,
                                              main.skills.utility3>>)),
                     error |-> NoError, calls |-> alt.calls, joins |-> joins]
               ELSE [status |-> "ok", skills |-> main.skills,
                     professionSpecific |->
                       RevenantData(<<legend1Byte, legend2Byte>>,
                                    inactiveSkillsOf(altSkills)),
                     error |-> NoError, calls |-> alt.calls, joins |-> joins]

(* A variant of decodeRangerData that wants both pets set.                 *)
decodeRangerDataBothSet(buffer, start, offset) ==
  LET pos == start + offset
  IN IF ~InBounds(buffer, pos, 2)
     THEN [status |-> "error", professionSpecific |-> NoProfessionSpecific,
           error |-> RangeError]
     ELSE LET pet1 == getUint8(buffer, pos)
              pet2 == getUint8(buffer, pos + 1)
          IN [status |-> "ok",
              professionSpecific |->
                IF pet1 = 0 \/ pet2 = 0 THEN NoProfessionSpecific
                ELSE RangerData(<<pet1, pet2>>),
              error |-> NoError]

(* decodeRangerData: [status, professionSpecific, error].                  *)
decodeRangerData(buffer, start, offset) ==
  LET pos == start + offset
  IN IF ~InBounds(buffer, pos, 2)
     THEN [status |-> "error", professionSpecific |-> NoProfessionSpecific,
           error |-> RangeError]
     ELSE LET pet1 == getUint8(buffer, pos)
              pet2 == getUint8(buffer, pos + 1)
          IN [status |-> "ok",
              professionSpecific |->
                IF pet1 = 0 /\ pet2 = 0 THEN NoProfessionSpecific
                ELSE RangerData(<<pet1, pet2>>),
              error |-> NoError]

(* n reads of the extended view from pos: readUInt16LE for the weapons,    *)
(* readUInt32LE for the skill variants.  BinaryView has no readUInt32LE,   *)
(* so the first call of it throws a TypeError; a read of readUInt16LE past *)
(* the end of the buffer throws a RangeError.                              *)
RECURSIVE readArray(_, _, _, _)
readArray(buffer, pos, n, width) ==
  IF n = 0
  THEN [status |-> "ok", vals |-> <<>>, pos |-> pos, error |-> NoError]
  ELSE IF width = 4
  THEN [status |-> "error", vals |-> <<>>, pos |-> pos, error |-> TypeError]
  ELSE IF ~InBounds(buffer, pos, width)
  THEN [status |-> "error", vals |-> <<>>, pos |-> pos, error |-> RangeError]
  ELSE LET v == getUint16LE(buffer, pos)
           rest == readArray(buffer, pos + width, n - 1, width)
       IN [status |-> rest.status, vals |-> <<v>> \o rest.vals,
           pos |-> rest.pos, error |-> rest.error]

(* An array of the trailer is set only when its count byte is non-zero.    *)
optionalArray(count, vals) == IF count > 0 THEN Present(vals) ELSE Absent

(* The trailer after byte 44: [status, weapons, skillVariants, error].     *)
decodeExtended(buffer) ==
  LET none == [status |-> "ok", weapons |-> Absent, skillVariants |-> Absent,
               error |-> NoError]
      failed(error) == [status |-> "error", weapons |-> Absent,
                        skillVariants |-> Absent, error |-> error]
  IN IF ~(Len(buffer) > OFFICIAL_CODE_LENGTH) THEN none
     ELSE
       LET weaponCount == getUint8(buffer, OFFICIAL_CODE_LENGTH)
           w == readArray(buffer, OFFICIAL_CODE_LENGTH + 1, weaponCount, 2)
       IN IF w.status # "ok" THEN failed(w.error)
          ELSE IF ~InBounds(buffer, w.pos, 1) THEN failed(RangeError)
          ELSE
            LET variantCount == getUint8(buffer, w.pos)
                v == readArray(buffer, w.pos + 1, variantCount, 4)
            IN IF v.status # "ok" THEN failed(v.error)
               ELSE [status |-> "ok",
                     weapons |-> optionalArray(weaponCount, w.vals),
                     skillVariants |-> optionalArray(variantCount, v.vals),
                     error |-> NoError]

(* Which profession has profession-specific bytes besides Revenant: the   *)
(* Ranger alone; after a variant that reads them for the Engineer too.     *)
(* A variant of invalidProfession that lets profession 10 through.         *)
invalidProfessionAboveTen(profession) == profession < 1 \/ profession > 10

invalidProfession(profession) == profession < 1 \/ profession > 9

isRangerOrEngineer(profession) == profession \in {3, 4}

isRanger(profession) == profession = 4

(* The length check of decode, after a variant that rejects 44 bytes too.  *)
lengthTooShortStrict(buffer) == Len(buffer) <= OFFICIAL_CODE_LENGTH

lengthTooShort(buffer) == Len(buffer) < OFFICIAL_CODE_LENGTH

(* decode after the skills: the trailer and the record (decoder.ts         *)
(* 144-180).  body is what the await of decodeRevenant or decodeSkills     *)
(* gave, with the ranger's pets.                                           *)
decodeEnd(buffer, profession, specializations, body) ==
  Joined(
    IF body.status # "ok" THEN Thrown(body.error, body.calls)
    ELSE LET ext == decodeExtended(buffer)
         IN IF ext.status # "ok" THEN Thrown(ext.error, body.calls)
            ELSE Returned(
                   BuildCode(profession, specializations, body.skills,
                             body.professionSpecific, ext.weapons,
                             ext.skillVariants),
                   body.calls),
    body.joins)

decode(chatLink, mapper, aquatic) ==
  LET base64 == StripWrapper(chatLink)
      buffer == Base64Decode(base64)
  IN IF lengthTooShort(buffer)
     THEN Thrown(BuildCodeError("INVALID_LENGTH", "none"), <<>>)
     ELSE IF getUint8(buffer, 0) # OFFICIAL_TYPE_INDICATOR
     THEN Thrown(BuildCodeError("INVALID_TYPE", "none"), <<>>)
     ELSE
       LET profession == getUint8(buffer, 1)
       IN IF invalidProfession(profession)
          THEN Thrown(BuildCodeError("INVALID_PROFESSION", "none"), <<>>)
          ELSE
            LET offset == IF aquatic THEN AQUATIC_OFFSET ELSE 0
                profSpecStart == 8 + SKILL_COUNT * BYTES_PER_SKILL
                viewPos == 8 + offset
            IN decodeEnd(
                 buffer, profession, decodeSpecializations(buffer, 2, 0),
                 IF profession = 9
                 THEN awaited("decodeRevenant",
                              decodeRevenant(buffer, viewPos, profSpecStart,
                                             mapper, offset))
                 ELSE awaited("decodeSkills",
                        LET s == decodeSkills(buffer, viewPos, profession, mapper)
                            r == IF isRanger(profession)
                                 THEN decodeRangerData(buffer, profSpecStart, offset)
                                 ELSE [status |-> "ok",
                                       professionSpecific |-> NoProfessionSpecific,
                                       error |-> NoError]
                        IN IF s.status # "ok"
                           THEN [status |-> "error", skills |-> s.skills,
                                 professionSpecific |-> NoProfessionSpecific,
                                 error |-> s.error, calls |-> s.calls,
                                 joins |-> <<>>]
                           ELSE [status |-> r.status, skills |-> s.skills,
                                 professionSpecific |-> r.professionSpecific,
                                 error |-> r.error, calls |-> s.calls,
                                 joins |-> <<>>]))

(***************************************************************************)
(* encode (src/src/encoder.ts, lines 32-207).                              *)
(***************************************************************************)
Zeros(n) == [i \in 1..n |-> 0]

(* buffer[pos] = value: the value is taken modulo 256, and a store outside *)
(* the buffer is ignored.                                                  *)
setByte(buffer, pos, value) ==
  IF pos >= 0 /\ pos < Len(buffer)
  THEN [buffer EXCEPT ![pos + 1] = value % 256]
  ELSE buffer

(* buffer.writeUInt16LE / writeUInt32LE throw a RangeError for a value or  *)
(* an offset out of range.  (The u32 values of the model stay below 2^31,  *)
(* so only the lower limit can be met for a width of 4.)  NaN is neither   *)
(* above nor below a limit: it passes and is stored as zero bytes.         *)
canWrite(buffer, pos, value, width) ==
  /\ InBounds(buffer, pos, width)
  /\ \/ value = NaN
     \/ /\ value >= 0
        /\ (width = 2 => value < 65536)

RECURSIVE putLE(_, _, _, _)
putLE(buffer, pos, value, width) ==
  IF width = 0 THEN buffer
  ELSE IF value = NaN THEN putLE(buffer, pos, 0, width)
  ELSE putLE([buffer EXCEPT ![pos + 1] = value % 256],
             pos + 1, value \div 256, width - 1)

(* A variant of encodeSpecializations that packs the third trait at bit 6. *)
RECURSIVE encodeSpecializationsMisplaced(_, _, _)
encodeSpecializationsMisplaced(buffer, specializations, i) ==
  IF i >= 3 THEN buffer
  ELSE LET pos == 2 + 2 * i
           written ==
             IF i < Len(specializations)
             THEN LET spec == specializations[i + 1]
                      traitMix == BitOr(spec.traits[1],
                                        BitOr(spec.traits[2] * 4, spec.traits[3] * 64))
                  IN setByte(setByte(buffer, pos, spec.id), pos + 1, traitMix)
             ELSE setByte(setByte(buffer, pos, 0), pos + 1, 0)
       IN encodeSpecializationsMisplaced(written, specializations, i + 1)

(* Bytes 2-7: the first three specializations, (0, 0) where there is none. *)
RECURSIVE encodeSpecializations(_, _, _)
encodeSpecializations(buffer, specializations, i) ==
  IF i >= 3 THEN buffer
  ELSE LET pos == 2 + 2 * i
           written ==
             IF i < Len(specializations)
             THEN LET spec == specializations[i + 1]
                      traitMix == BitOr(spec.traits[1],
                                        BitOr(spec.traits[2] * 4, spec.traits[3] * 16))
                  IN setByte(setByte(buffer, pos, spec.id), pos + 1, traitMix)
             ELSE setByte(setByte(buffer, pos, 0), pos + 1, 0)
       IN encodeSpecializations(written, specializations, i + 1)

(* The order in which encode writes the ten slots.                         *)
encoderSkillKeys ==
  <<"heal", "aquaticHeal", "utility1", "aquaticUtility1", "utility2",
    "aquaticUtility2", "utility3", "aquaticUtility3", "elite",
    "aquaticElite">>

skillOrZero(skills, key) == IF key \in DOMAIN skills THEN skills[key] ELSE 0

arrayOf(optional) == IF optional = Absent THEN <<>> ELSE optional[1]

(* A variant of hasExtendedData that looks at the weapons alone.           *)
hasExtendedDataWeaponsOnly(buildCode) == Len(arrayOf(buildCode.weapons)) > 0

hasExtendedData(buildCode) ==
  \/ Len(arrayOf(buildCode.weapons)) > 0
  \/ Len(arrayOf(buildCode.skillVariants)) > 0

totalSize(buildCode) ==
  IF hasExtendedData(buildCode)
  THEN OFFICIAL_CODE_LENGTH + 1 + Len(arrayOf(buildCode.weapons)) * 2
         + 1 + Len(arrayOf(buildCode.skillVariants)) * 4
  ELSE OFFICIAL_CODE_LENGTH

(* encode is an async function: it awaits the mapper once per non-zero     *)
(* skill and returns to the event loop each time.  The frame of a call     *)
(* that is suspended at an await: the buffer written so far, the position, *)
(* the loop it is in (the ten slots, the inactive skills of a Revenant) and*)
(* the index in it, and what was computed before the first await           *)
(* (hasExtendedData, the wrapInChatLink option; the size is the length of  *)
(* the buffer).  buildCode is not in the frame: the call reads the         *)
(* caller's object again after every await.                                *)
Frame(buffer, pos, section, index, extended, wrapInChatLink) ==
  [buffer |-> buffer, pos |-> pos, section |-> section, index |-> index,
   hasExtendedData |-> extended, wrapInChatLink |-> wrapInChatLink]

NoFrame == Frame(<<>>, 0, "none", 0, FALSE, TRUE)

(* The outcome of encode; the value is the string.  A call in flight is    *)
(* "pending": it has issued the lookups `calls`, awaits the last of them   *)
(* and holds its frame.                                                    *)
EncodeReturned(string, calls) ==
  [status |-> "ok", value |-> string, error |-> NoError, calls |-> calls,
   frame |-> NoFrame]
EncodeThrown(error, calls) ==
  [status |-> "error", value |-> <<>>, error |-> error, calls |-> calls,
   frame |-> NoFrame]
EncodeNotCalled ==
  [status |-> "none", value |-> <<>>, error |-> NoError, calls |-> <<>>,
   frame |-> NoFrame]
EncodePending(frame, calls) ==
  [status |-> "pending", value |-> <<>>, error |-> NoError, calls |-> calls,
   frame |-> frame]

(* A variant of encodeProfessionSpecific without the two-byte gap after    *)
(* the legend bytes.                                                       *)
encodeProfessionSpecificNoGap(buildCode, frame) ==
  LET profSpec == buildCode.professionSpecific
      done == [frame EXCEPT !.section = "extended", !.index = 0]
  IN IF profSpec.type = "ranger"
     THEN [done EXCEPT
             !.buffer = setByte(setByte(@, frame.pos, profSpec.pets[1]),
                                frame.pos + 1, profSpec.pets[2]),
             !.pos = @ + 2]
     ELSE IF profSpec.type = "revenant"
     THEN LET legend2 == IF Len(profSpec.legends) >= 2 THEN profSpec.legends[2] ELSE 0
              legends == [done EXCEPT
                            !.buffer = setByte(setByte(@, frame.pos, profSpec.legends[1]),
                                               frame.pos + 1, legend2),
                            !.pos = @ + 2]
          IN IF profSpec.inactiveSkills # Absent
             THEN [legends EXCEPT !.section = "inactive", !.index = 1]
             ELSE legends
     ELSE done

(* Section 5 of encode, from byte 28, up to its loop: pets, or legends and *)
(* the gap, by the type of professionSpecific alone.  The frame after it   *)
(* is in the loop over the inactive skills, or at the extended data.       *)
encodeProfessionSpecific(buildCode, frame) ==
  LET profSpec == buildCode.professionSpecific
      done == [frame EXCEPT !.section = "extended", !.index = 0]
  IN IF profSpec.type = "ranger"
     THEN [done EXCEPT
             !.buffer = setByte(setByte(@, frame.pos, profSpec.pets[1]),
                                frame.pos + 1, profSpec.pets[2]),
             !.pos = @ + 2]
     ELSE IF profSpec.type = "revenant"
     THEN LET legend2 == IF Len(profSpec.legends) >= 2 THEN profSpec.legends[2] ELSE 0
              legends == [done EXCEPT
                            !.buffer = setByte(setByte(@, frame.pos, profSpec.legends[1]),
                                               frame.pos + 1, legend2),
                            !.pos = @ + 4]
          IN IF profSpec.inactiveSkills # Absent
             THEN [legends EXCEPT !.section = "inactive", !.index = 1]
             ELSE legends
     ELSE done

(* count items of `width` bytes each: [status, buffer, pos].               *)
RECURSIVE writeArray(_, _, _, _)
writeArray(buffer, pos, items, width) ==
  IF items = <<>> THEN [status |-> "ok", buffer |-> buffer, pos |-> pos]
  ELSE IF ~canWrite(buffer, pos, Head(items), width)
  THEN [status |-> "error", buffer |-> buffer, pos |-> pos]
  ELSE writeArray(putLE(buffer, pos, Head(items), width), pos + width,
                  Tail(items), width)

(* Section 6 of encode, from byte 44: [status, buffer, pos].  Whether it   *)
(* is written was decided before the first await (extended); the arrays    *)
(* are read now.                                                           *)
encodeExtended(buildCode, buffer, extended) ==
  IF ~extended
  THEN [status |-> "ok", buffer |-> buffer, pos |-> OFFICIAL_CODE_LENGTH]
  ELSE LET weapons == arrayOf(buildCode.weapons)
           variants == arrayOf(buildCode.skillVariants)
           counted == setByte(buffer, OFFICIAL_CODE_LENGTH, Len(weapons))
           w == writeArray(counted, OFFICIAL_CODE_LENGTH + 1, weapons, 2)
       IN IF w.status # "ok" THEN w
          ELSE writeArray(setByte(w.buffer, w.pos, Len(variants)), w.pos + 1,
                          variants, 4)

(* Sections 6 to 8: the extended data, base64 and the wrapper.             *)
encodeEnd(buildCode, out) ==
  LET ext == encodeExtended(buildCode, out.frame.buffer,
                            out.frame.hasExtendedData)
  IN IF ext.status # "ok" THEN EncodeThrown(RangeError, out.calls)
     ELSE LET base64 == Base64Encode(ext.buffer)
          IN EncodeReturned(IF out.frame.wrapInChatLink
                            THEN WrapInChatLink(base64) ELSE base64,
                            out.calls)

(* The skill id the loop of the frame reads from the build at its index,   *)
(* and the profession it hands to the mapper with it.  The loop over the   *)
(* inactive skills reads inactiveSkills[i] for i = 0, 1, 2 whatever the    *)
(* length of the array: undefined where the array has no such item.        *)
skillIdAt(buildCode, frame) ==
  IF frame.section = "skills"
  THEN skillOrZero(buildCode.skills, encoderSkillKeys[frame.index])
  ELSE LET inactiveSkills == arrayOf(buildCode.professionSpecific.inactiveSkills)
       IN IF frame.index <= Len(inactiveSkills)
          THEN inactiveSkills[frame.index] ELSE undefined

professionAt(buildCode, frame) ==
  IF frame.section = "skills" THEN buildCode.profession ELSE 9

(* for (const key of skillKeys), and for (let i = 0; i < 3; i++).          *)
loopEnded(buildCode, frame) ==
  IF frame.section = "skills" THEN frame.index > Len(encoderSkillKeys)
  ELSE frame.index > 3

(* encode from a frame that is not awaiting, to its next await or to its   *)
(* end: one slot after another, an id of 0 (or a missing key of skills) is *)
(* written as 0 without a lookup, any other id (undefined too: it is not   *)
(* 0) is handed to the mapper and the call is suspended.  writePalette is  *)
(* buffer.writeUInt16LE(paletteIndex, pos), pos += 2 and the rest of the   *)
(* run.                                                                    *)
RECURSIVE encodeRun(_, _)
RECURSIVE writePalette(_, _, _)
writePalette(buildCode, out, paletteIndex) ==
  IF ~canWrite(out.frame.buffer, out.frame.pos, paletteIndex, 2)
  THEN EncodeThrown(RangeError, out.calls)
  ELSE encodeRun(buildCode,
         [out EXCEPT !.frame.buffer = putLE(@, out.frame.pos, paletteIndex, 2),
                     !.frame.pos = @ + 2,
                     !.frame.index = @ + 1])

encodeRun(buildCode, out) ==
  IF out.frame.section = "extended" THEN encodeEnd(buildCode, out)
  ELSE IF loopEnded(buildCode, out.frame)
  THEN IF out.frame.section = "skills"
       THEN encodeRun(buildCode,
              [out EXCEPT !.frame = encodeProfessionSpecific(buildCode, @)])
       ELSE encodeRun(buildCode, [out EXCEPT !.frame.section = "extended"])
  ELSE LET skillId == skillIdAt(buildCode, out.frame)
       IN IF skillId # 0
          THEN [out EXCEPT
                  !.calls = Append(@, SkillCall(professionAt(buildCode, out.frame),
                                                skillId))]
          ELSE writePalette(buildCode, out, 0)

(* The call of encode, up to its first await: the size of the buffer, the  *)
(* header and the specializations.  options.aquatic is not read.           *)
encodeCall(buildCode, aquatic, wrapInChatLink) ==
  LET header == setByte(setByte(Zeros(totalSize(buildCode)), 0,
                                OFFICIAL_TYPE_INDICATOR),
                        1, buildCode.profession)
      specs == encodeSpecializations(header, buildCode.specializations, 0)
  IN encodeRun(buildCode,
       EncodePending(Frame(specs, 8, "skills", 1, hasExtendedData(buildCode),
                           wrapInChatLink),
                     <<>>))

(* The awaited lookup settles: a rejection is wrapped in                   *)
(* PALETTE_LOOKUP_FAILED, a palette index is written and the call runs on. *)
encodeResume(buildCode, mapper, out) ==
  LET call == out.calls[Len(out.calls)]
      r == skillToPalette(mapper, call.profession, call.arg)
  IN IF ~r.ok
     THEN EncodeThrown(BuildCodeError("PALETTE_LOOKUP_FAILED", "MapperError"),
                       out.calls)
     ELSE writePalette(buildCode, out, r.val)

(* encode of a build the caller leaves alone, awaited to its end.          *)
(* options.aquatic is not read.                                            *)
RECURSIVE encodeSettled(_, _, _)
encodeSettled(buildCode, mapper, out) ==
  IF out.status # "pending" THEN out
  ELSE encodeSettled(buildCode, mapper, encodeResume(buildCode, mapper, out))

encode(buildCode, mapper, aquatic, wrapInChatLink) ==
  encodeSettled(buildCode, mapper,
                encodeCall(buildCode, aquatic, wrapInChatLink))

(***************************************************************************)
(* The inputs.  Chat links of the tests (src/test/fixtures.ts,             *)
(* src/test/decoder.test.ts) and buffers built field by field.             *)
(***************************************************************************)
Fixture_fullNecro ==
  << "[","&","D","Q","g","1","K","T","I","l","I","j","b","B","E","g","A",
     "A","g","Q","B","1","A","U","A","B","g","Q","B","1","A","U","A","B",
     "l","Q","C","V","A","A","A","A","A","A","A","A","A","A","A","A","A",
     "A","A","A","A","A","A","A","A","A","A","=","]" >>

Fixture_revenant ==
  << "[","&","D","Q","k","M","K","w","M","Z","R","R","n","c","E","Q","A",
     "A","B","h","I","A","A","C","s","S","A","A","D","U","E","Q","A","A",
     "y","h","E","A","A","A","c","B","A","A","A","G","E","i","s","S","1",
     "B","E","A","A","A","A","A","A","A","A","=","]" >>

Fixture_rangerPets ==
  << "[","&","D","Q","Q","e","F","S","A","V","N","x","U","A","A","A","A",
     "A","A","A","A","A","A","A","A","A","A","A","A","A","A","A","A","A",
     "A","A","A","A","A","D","s","R","A","A","A","A","A","A","A","A","A",
     "A","A","A","A","A","A","A","A","A","A","=","]" >>

Fixture_amalgam ==
  << "[","&","D","Q","M","G","F","y","Y","7","S","w","A","o","A","Q","A",
     "A","A","A","A","A","A","A","A","A","A","A","A","A","A","A","A","A",
     "A","A","A","A","A","A","A","A","A","A","A","A","A","A","A","A","A",
     "A","A","A","A","A","A","A","A","A","A","D","N","Q","B","X","A","F",
     "U","A","A","A","=","=","]" >>

Fixture_tooShort ==
  << "[","&","D","Q","g","1","K","T","I","=","]" >>

FixtureLinks ==
  {Fixture_fullNecro, Fixture_revenant, Fixture_rangerPets, Fixture_amalgam,
   Fixture_tooShort}

(* Strings that are not valid base64: characters outside the alphabet, and *)
(* a valid 44-byte body with such characters put into it.                  *)
InvalidBase64Bodies ==
  LET body == StripWrapper(Fixture_fullNecro)
  IN { <<"!", "!", "!", "!">>,
       <<"D", "Q", "g", "*">>,
       <<"*">> \o body,
       SubSeq(body, 1, 8) \o <<" ", "#">> \o SubSeq(body, 9, Len(body)) }

IsBase64Char(c) == c \in B64Alphabet

(* Valid (canonical) base64: groups of four alphabet characters, the last  *)
(* group possibly ending in one or two '='.                                *)
ValidBase64(s) ==
  /\ Len(s) % 4 = 0
  /\ \A i \in 1..Len(s) :
       \/ IsBase64Char(s[i])
       \/ s[i] = "=" /\ i > Len(s) - 2 /\ (i = Len(s) \/ s[i + 1] = "=")

U16LE(v) == <<v % 256, v \div 256>>
U32LE(v) == <<v % 256, (v \div 256) % 256, (v \div 65536) % 256, v \div 16777216>>

RECURSIVE Flatten(_)
Flatten(ss) == IF ss = <<>> THEN <<>> ELSE Head(ss) \o Flatten(Tail(ss))

(* A 44-byte base buffer from its fields: header, six specialization bytes,*)
(* ten palette indices, the two bytes at 28-29, the three u16 at 32-37 and *)
(* the byte put at 30, 31 and 38-43.                                       *)
BaseBuffer(typeByte, profession, specBytes, palettes, b28, b29, alt, fill) ==
  <<typeByte, profession>> \o specBytes
    \o Flatten([i \in 1..10 |-> U16LE(palettes[i])])
    \o <<b28, b29, fill, fill>>
    \o Flatten([i \in 1..3 |-> U16LE(alt[i])])
    \o <<fill, fill, fill, fill, fill, fill>>

SpecBytePatterns ==
  { <<0, 0, 0, 0, 0, 0>>,
    <<53, 41, 50, 37, 34, 54>>,
    <<0, 0, 30, 229, 0, 0>> }

PalettePatterns ==
  { <<0, 0, 0, 0, 0, 0, 0, 0, 0, 0>>,
    <<1, 2, 3, 4, 5, 6, 7, 8, 9, 10>>,
    <<300, 0, 0, 5, 0, 0, 0, 0, 0, 4660>> }

AltPatterns == { <<0, 0, 0>>, <<11, 0, 13>>, <<11, 12, 14>>, <<0, 12, 14>> }

(* Headers: every combination of a good or bad type byte and profession    *)
(* byte, at 43 and at 44 bytes.                                            *)
HeaderBuffers ==
  { SubSeq(BaseBuffer(t, p, <<0, 0, 0, 0, 0, 0>>, <<1, 2, 3, 4, 5, 6, 7, 8, 9, 10>>,
                      0, 0, <<0, 0, 0>>, 0), 1, n) :
      t \in {13, 255}, p \in {0, 1, 9, 10}, n \in {43, 44} }

(* Bodies: every palette pattern with every pair of bytes at 28-29 and     *)
(* every pattern at 32-37 under no specialization, and every pattern of    *)
(* specialization bytes with every palette pattern.                        *)
BodyBuffers ==
  { BaseBuffer(13, p, <<0, 0, 0, 0, 0, 0>>, pal, b28, b29, alt, 0) :
      p \in {1, 3, 4, 9}, pal \in PalettePatterns,
      b28 \in 0..MaxLegend, b29 \in 0..MaxLegend, alt \in AltPatterns }
    \cup
  { BaseBuffer(13, p, sb, pal, 0, 0, <<0, 0, 0>>, 0) :
      p \in {1, 3, 4, 9}, sb \in SpecBytePatterns, pal \in PalettePatterns }

(* Trailers: a weapon count and weapons, a variant count and variants, and *)
(* every proper prefix of that (a trailer shorter than its counts say).    *)
Trailer(w, v) ==
  <<w>> \o Flatten([i \in 1..w |-> U16LE(300 + i)])
    \o <<v>> \o Flatten([i \in 1..v |-> U32LE(70000 + i)])

TrailerBuffers ==
  { BaseBuffer(13, p, <<53, 41, 0, 0, 0, 0>>, <<300, 0, 0, 5, 0, 0, 0, 0, 0, 4660>>,
               1, 2, <<11, 0, 13>>, 0)
      \o SubSeq(Trailer(w, v), 1, Min(n, Len(Trailer(w, v)))) :
      p \in {1, 9}, w \in 0..MaxTrailer, v \in 0..MaxTrailer,
      n \in 1..(2 + 2 * MaxTrailer + 4 * MaxTrailer) }

(* The chat links handed to decode: every buffer wrapped in [& ], and the  *)
(* fixtures and the invalid strings both wrapped and bare.                 *)
ChatLinks ==
  { WrapInChatLink(Base64Encode(b)) :
      b \in HeaderBuffers \cup BodyBuffers \cup TrailerBuffers }
    \cup FixtureLinks
    \cup { StripWrapper(l) : l \in FixtureLinks }
    \cup InvalidBase64Bodies
    \cup { WrapInChatLink(s) : s \in InvalidBase64Bodies }

(* The builds handed to encode.                                            *)
SkillsInOrder(ids) ==
  [k \in SkillNames |->
     ids[CHOOSE i \in 1..10 : InterleavedSkillKeys[i] = k]]

BuildSkills ==
  { EmptySkills,
    SkillsInOrder([i \in 1..10 |-> OFFSET + i]),
    SkillsInOrder(<<OFFSET + 100, 0, OFFSET + 200, 0, OFFSET + 300, 0,
                    OFFSET + 400, 0, OFFSET + 500, 0>>) }

BuildSpecializations ==
  { <<>>,
    <<[id |-> 4, traits |-> <<1, 0, 3>>]>>,
    <<[id |-> 53, traits |-> <<1, 2, 2>>], [id |-> 50, traits |-> <<1, 1, 2>>],
      [id |-> 34, traits |-> <<2, 1, 3>>]>>,
    <<[id |-> 4, traits |-> <<1, 0, 3>>], [id |-> 27, traits |-> <<0, 0, 0>>],
      [id |-> 16, traits |-> <<3, 3, 3>>], [id |-> 62, traits |-> <<2, 2, 2>>]>> }

(* A profession with a professionSpecific value: the matching ones, and   *)
(* values a caller can also pass (none for a Revenant, another             *)
(* profession's data, the unused engineer variant, an inactiveSkills array *)
(* of fewer or more than three items).                                     *)
BuildProfessions ==
  { <<1, NoProfessionSpecific>>,
    <<1, RangerData(<<59, 17>>)>>,
    <<1, RevenantData(<<3, 5>>, Present(<<OFFSET + 11, OFFSET + 12, OFFSET + 13>>))>>,
    <<3, NoProfessionSpecific>>,
    <<3, EngineerData(<<OFFSET + 90, OFFSET + 54, OFFSET + 51>>)>>,
    <<4, NoProfessionSpecific>>,
    <<4, RangerData(<<59, 17>>)>>,
    <<4, RangerData(<<0, 17>>)>>,
    <<9, NoProfessionSpecific>>,
    <<9, RevenantData(<<3>>, Absent)>>,
    <<9, RevenantData(<<3, 5>>, Absent)>>,
    <<9, RevenantData(<<3, 5>>, Present(<<OFFSET + 11, OFFSET + 12, OFFSET + 13>>))>>,
    <<9, RevenantData(<<3, 5>>, Present(<<OFFSET + 11, 0, OFFSET + 14>>))>>,
    <<9, RevenantData(<<3, 5>>, Present(<<>>))>>,
    <<9, RevenantData(<<3, 5>>, Present(<<OFFSET + 11>>))>>,
    <<9, RevenantData(<<3, 5>>, Present(<<0, OFFSET + 12>>))>>,
    <<9, RevenantData(<<3, 5>>,
                      Present(<<OFFSET + 11, 0, OFFSET + 14, OFFSET + 15>>))>> }

(* weapons: absent, or an array of 0..MaxTrailer ids; skillVariants:       *)
(* absent, or an array of MaxTrailer ids.                                  *)
BuildWeapons ==
  { Absent } \cup { Present([i \in 1..n |-> 300 + i]) : n \in 0..MaxTrailer }

BuildVariants ==
  { Absent, Present([i \in 1..MaxTrailer |-> 70000 + i]) }

(* Every profession and skill set, with every specialization list and no  *)
(* trailer, and with every trailer and no specialization.                  *)
Builds ==
  { BuildCode(pp[1], sp, sk, pp[2], Absent, Absent) :
      pp \in BuildProfessions, sp \in BuildSpecializations, sk \in BuildSkills }
    \cup
  { BuildCode(pp[1], <<>>, sk, pp[2], w, v) :
      pp \in BuildProfessions, sk \in BuildSkills,
      w \in BuildWeapons, v \in BuildVariants }

(***************************************************************************)
(* BuildValidator (src/unnamed/part_001) and the metadata provider it      *)
(* asks.  A lookup resolves with the item's info, resolves with null (not  *)
(* found), or rejects with the provider's own error.  Three providers:     *)
(*   "mock"    the tests' mockProvider                                     *)
(*   "noPets"  the same without the optional getPetInfo                    *)
(*   "failing" the same, but its lookups of a few ids reject               *)
(***************************************************************************)
MetadataProviders == {"mock", "noPets", "failing"}

ProviderError == [class |-> "ProviderError", code |-> "none", cause |-> "none"]

Found(info) == [ok |-> TRUE, found |-> TRUE, info |-> info]
NotFound == [ok |-> TRUE, found |-> FALSE, info |-> <<>>]
LookupFailed == [ok |-> FALSE, found |-> FALSE, info |-> <<>>]

(* The ids whose lookup rejects with the "failing" provider.               *)
FailingIds == {10200, 50, 17}

validSkills ==
  [id \in {10100, 10200, 10300} |->
     CASE id = 10100 -> [id |-> id, name |-> "Test Heal",
                         professions |-> <<"Necromancer">>]
       [] id = 10200 -> [id |-> id, name |-> "Test Utility",
                         professions |-> <<"Necromancer">>]
       [] OTHER -> [id |-> id, name |-> "Guardian Skill",
                    professions |-> <<"Guardian">>]]

validSpecs ==
  [id \in {53, 50, 34, 27} |->
     CASE id = 53 -> [id |-> id, name |-> "Spite", profession |-> "Necromancer"]
       [] id = 50 -> [id |-> id, name |-> "Soul Reaping",
                      profession |-> "Necromancer"]
       [] id = 34 -> [id |-> id, name |-> "Reaper", profession |-> "Necromancer"]
       [] OTHER -> [id |-> id, name |-> "Dragonhunter",
                    profession |-> "Guardian"]]

validPets ==
  [id \in {59, 17} |->
     IF id = 59 THEN [id |-> id, name |-> "Moa"]
     ELSE [id |-> id, name |-> "Warthog"]]

lookupIn(provider, table, id) ==
  IF provider = "failing" /\ id \in FailingIds THEN LookupFailed
  ELSE IF id \in DOMAIN table THEN Found(table[id])
  ELSE NotFound

getSkillInfo(provider, skillId) == lookupIn(provider, validSkills, skillId)

getSpecializationInfo(provider, specId) == lookupIn(provider, validSpecs, specId)

(* A variant of hasGetPetInfo: every provider is taken to offer it.        *)
hasGetPetInfoAlways(provider) == TRUE

hasGetPetInfo(provider) == provider # "noPets"

getPetInfo(provider, petId) == lookupIn(provider, validPets, petId)

LookupCall(fn, id) == [fn |-> fn, arg |-> id, awaited |-> TRUE]

getProfessionName(profession) ==
  CASE profession = 1 -> "Guardian"
    [] profession = 2 -> "Warrior"
    [] profession = 3 -> "Engineer"
    [] profession = 4 -> "Ranger"
    [] profession = 5 -> "Thief"
    [] profession = 6 -> "Elementalist"
    [] profession = 7 -> "Mesmer"
    [] profession = 8 -> "Necromancer"
    [] profession = 9 -> "Revenant"
    [] OTHER -> "Unknown"

ValidationErrorType ==
  {"INVALID_SKILL_ID", "INVALID_SPECIALIZATION_ID",
   "SPECIALIZATION_NOT_FOR_PROFESSION", "INVALID_PET_ID", "INVALID_LEGEND_ID",
   "SKILL_NOT_FOR_PROFESSION"}

ValidationError(type, context) == [type |-> type, context |-> context]

(* The slots in the order validateSkills walks them: the five terrestrial  *)
(* ones, then the five aquatic ones.                                       *)
validatedSlots ==
  <<"heal", "utility1", "utility2", "utility3", "elite",
    "aquaticHeal", "aquaticUtility1", "aquaticUtility2", "aquaticUtility3",
    "aquaticElite">>

(* What a validation step has so far: [status, errors, calls].             *)
NoErrors == [status |-> "ok", errors |-> <<>>, calls |-> <<>>]

(* An empty slot is skipped; after a variant that looks every slot up.     *)
isEmptySlotNever(id) == FALSE

isEmptySlot(id) == id = 0

(* The profession test of validateSkills.                                  *)
skillAllows(skillInfo, professionName) ==
  professionName \in Range(skillInfo.professions)

(* The loop of validateSkills from slot i on.                              *)
RECURSIVE validateSkillSlots(_, _, _, _)
validateSkillSlots(build, provider, i, acc) ==
  IF i > Len(validatedSlots) THEN acc
  ELSE
    LET slot == validatedSlots[i]
        id == build.skills[slot]
        professionName == getProfessionName(build.profession)
    IN IF isEmptySlot(id) THEN validateSkillSlots(build, provider, i + 1, acc)
       ELSE
         LET r == getSkillInfo(provider, id)
             calls == Append(acc.calls, LookupCall("getSkillInfo", id))
         IN IF ~r.ok THEN [acc EXCEPT !.status = "error", !.calls = calls]
            ELSE IF ~r.found
            THEN validateSkillSlots(build, provider, i + 1,
                   [acc EXCEPT
                      !.calls = calls,
                      !.errors = Append(@, ValidationError("INVALID_SKILL_ID",
                                   [skillId |-> id, slot |-> slot]))])
            ELSE IF ~skillAllows(r.info, professionName)
            THEN validateSkillSlots(build, provider, i + 1,
                   [acc EXCEPT
                      !.calls = calls,
                      !.errors = Append(@,
                        ValidationError("SKILL_NOT_FOR_PROFESSION",
                          [skillId |-> id, skillName |-> r.info.name,
                           profession |-> professionName,
                           validProfessions |-> r.info.professions]))])
            ELSE validateSkillSlots(build, provider, i + 1,
                                    [acc EXCEPT !.calls = calls])

validateSkills(build, provider) ==
  validateSkillSlots(build, provider, 1, NoErrors)

RECURSIVE validateSpecializationsFrom(_, _, _, _)
validateSpecializationsFrom(build, provider, i, acc) ==
  IF i > Len(build.specializations) THEN acc
  ELSE
    LET id == build.specializations[i].id
        professionName == getProfessionName(build.profession)
        r == getSpecializationInfo(provider, id)
        calls == Append(acc.calls, LookupCall("getSpecializationInfo", id))
    IN IF ~r.ok THEN [acc EXCEPT !.status = "error", !.calls = calls]
       ELSE IF ~r.found
       THEN validateSpecializationsFrom(build, provider, i + 1,
              [acc EXCEPT
                 !.calls = calls,
                 !.errors = Append(@,
                   ValidationError("INVALID_SPECIALIZATION_ID",
                                   [specializationId |-> id]))])
       ELSE IF r.info.profession # professionName
       THEN validateSpecializationsFrom(build, provider, i + 1,
              [acc EXCEPT
                 !.calls = calls,
                 !.errors = Append(@,
                   ValidationError("SPECIALIZATION_NOT_FOR_PROFESSION",
                     [specializationId |-> id,
                      specializationName |-> r.info.name,
                      expectedProfession |-> professionName,
                      actualProfession |-> r.info.profession]))])
       ELSE validateSpecializationsFrom(build, provider, i + 1,
                                        [acc EXCEPT !.calls = calls])

validateSpecializations(build, provider) ==
  validateSpecializationsFrom(build, provider, 1, NoErrors)

RECURSIVE validatePetsFrom(_, _, _, _)
validatePetsFrom(pets, provider, i, acc) ==
  IF i > Len(pets) THEN acc
  ELSE
    LET petId == pets[i]
    IN IF petId = 0 THEN validatePetsFrom(pets, provider, i + 1, acc)
       ELSE
         LET r == getPetInfo(provider, petId)
             calls == Append(acc.calls, LookupCall("getPetInfo", petId))
         IN IF ~r.ok THEN [acc EXCEPT !.status = "error", !.calls = calls]
            ELSE IF ~r.found
            THEN validatePetsFrom(pets, provider, i + 1,
                   [acc EXCEPT
                      !.calls = calls,
                      !.errors = Append(@, ValidationError("INVALID_PET_ID",
                                   [petId |-> petId, petSlot |-> i - 1]))])
            ELSE validatePetsFrom(pets, provider, i + 1,
                                  [acc EXCEPT !.calls = calls])

validatePets(pets, provider) ==
  IF ~hasGetPetInfo(provider) THEN NoErrors
  ELSE validatePetsFrom(pets, provider, 1, NoErrors)

(* errors.push(...more); after a variant that keeps only the first batch   *)
(* of errors.                                                              *)
pushErrorsUnlessAny(errors, more) ==
  IF errors # <<>> THEN errors ELSE errors \o more

pushErrors(errors, more) == errors \o more

(* The outcome of validate: the ValidationResult it resolved with, or the  *)
(* error it rejected with, the lookups it made, in order, and the awaits   *)
(* of validateSkills, validateSpecializations and validatePets it went     *)
(* through.                                                                *)
ValidationResult(errors, calls) ==
  [status |-> "ok", valid |-> (Len(errors) = 0), errors |-> errors,
   warnings |-> <<>>, error |-> NoError, calls |-> calls, joins |-> <<>>]

ValidateRejected(calls) ==
  [status |-> "error", valid |-> FALSE, errors |-> <<>>, warnings |-> <<>>,
   error |-> ProviderError, calls |-> calls, joins |-> <<>>]

NotValidated ==
  [status |-> "none", valid |-> FALSE, errors |-> <<>>, warnings |-> <<>>,
   error |-> NoError, calls |-> <<>>, joins |-> <<>>]

ValidationPending(calls) ==
  [status |-> "pending", valid |-> FALSE, errors |-> <<>>, warnings |-> <<>>,
   error |-> NoError, calls |-> calls, joins |-> <<>>]

validate(build, provider) ==
  LET skillErrors == validateSkills(build, provider)
      joins1 == <<Join("validateSkills", Len(skillErrors.calls))>>
  IN IF skillErrors.status # "ok"
     THEN Joined(ValidateRejected(skillErrors.calls), joins1)
     ELSE
       LET specErrors == validateSpecializations(build, provider)
           calls2 == skillErrors.calls \o specErrors.calls
           errors2 == pushErrors(pushErrors(<<>>, skillErrors.errors),
                                 specErrors.errors)
           joins2 == Append(joins1, Join("validateSpecializations", Len(calls2)))
       IN IF specErrors.status # "ok"
          THEN Joined(ValidateRejected(calls2), joins2)
          ELSE IF build.professionSpecific.type = "ranger"
          THEN LET petErrors == validatePets(build.professionSpecific.pets,
                                             provider)
                   calls3 == calls2 \o petErrors.calls
                   joins3 == Append(joins2, Join("validatePets", Len(calls3)))
               IN IF petErrors.status # "ok"
                  THEN Joined(ValidateRejected(calls3), joins3)
                  ELSE Joined(ValidationResult(pushErrors(errors2,
                                                          petErrors.errors),
                                               calls3),
                              joins3)
          ELSE Joined(ValidationResult(errors2, calls2), joins2)

(* The builds handed to validate.                                          *)
ValidatedSkills ==
  { [EmptySkills EXCEPT !.heal = h, !.utility1 = u, !.aquaticElite = a] :
      h \in {0, 10100, 99999}, u \in {10200, 10300}, a \in {0, 10300, 99999} }

ValidatedSpecializations ==
  { <<>>,
    <<[id |-> 53, traits |-> <<1, 1, 1>>], [id |-> 50, traits |-> <<1, 1, 1>>],
      [id |-> 34, traits |-> <<1, 1, 1>>]>>,
    <<[id |-> 53, traits |-> <<1, 1, 1>>], [id |-> 27, traits |-> <<1, 1, 1>>]>>,
    <<[id |-> 99, traits |-> <<1, 1, 1>>], [id |-> 27, traits |-> <<1, 1, 1>>],
      [id |-> 99, traits |-> <<1, 1, 1>>]>> }

ValidatedProfessionSpecific ==
  { NoProfessionSpecific, RangerData(<<59, 17>>), RangerData(<<999, 0>>),
    RangerData(<<999, 998>>), RevenantData(<<3, 5>>, Absent) }

ValidatedBuilds ==
  { BuildCode(p, sp, sk, ps, Absent, Absent) :
      p \in {1, 4, 8}, sp \in ValidatedSpecializations, sk \in ValidatedSkills,
      ps \in ValidatedProfessionSpecific }

(***************************************************************************)
(* The cursors decode holds over one buffer: the primary view and, once    *)
(* slice has been called, the view it returned.  history counts, for each  *)
(* cursor, the reads of either kind that returned, those that threw and    *)
(* the bytes skipped; last is the operation made last, with the positions  *)
(* of both cursors before it.  A cursor whose read threw is as usable as   *)
(* before.                                                                 *)
(***************************************************************************)
CursorBuffers == { <<13, 9, 200>>, <<13, 9, 53, 41, 7>> }

CursorNames == {"view", "sliced"}

SkipLengths == {1, AQUATIC_OFFSET}

PeekOffsets == {0, 1}

SliceOffsets == {0, AQUATIC_OFFSET}

NoView == [pos |-> -1]

NoHistory ==
  [start |-> 0, readBytes |-> 0, readWords |-> 0, skipped |-> 0,
   failedBytes |-> 0, failedWords |-> 0]

NoOperation ==
  [cursor |-> "none", op |-> "none", arg |-> 0, value |-> 0, threw |-> FALSE,
   before |-> [n \in CursorNames |-> -1]]

Operation(cursor, op, arg, value, threw, before) ==
  [cursor |-> cursor, op |-> op, arg |-> arg, value |-> value, threw |-> threw,
   before |-> before]

NoCursors ==
  [buffer |-> <<>>, views |-> [n \in CursorNames |-> NoView],
   history |-> [n \in CursorNames |-> NoHistory], ops |-> 0,
   last |-> NoOperation]

(* new BinaryView(buffer, offset)                                          *)
NewCursors(buffer, offset) ==
  [buffer |-> buffer,
   views |-> [n \in CursorNames |->
                IF n = "view" THEN BinaryView(offset) ELSE NoView],
   history |-> [n \in CursorNames |->
                  IF n = "view" THEN [NoHistory EXCEPT !.start = offset]
                  ELSE NoHistory],
   ops |-> 0,
   last |-> NoOperation]

(* Every buffer with a cursor constructed at every offset into it.         *)
InitialCursors ==
  UNION { { NewCursors(buffer, offset) : offset \in 0..Len(buffer) } :
            buffer \in CursorBuffers }

(***************************************************************************)
(* The state: what a caller holds.  In mode "link" the caller starts from a*)
(* chat link and decodes it: as it is, in another way (in its other        *)
(* wrapper form, or with the aquatic option), or first the one and then    *)
(* the other; or after the first decode it encodes the decoded record and  *)
(* decodes that string again.  In mode "build" the caller starts from a    *)
(* build and encodes it: with the default options, with another option     *)
(* (aquatic, or without wrapper), or first the one and then the other; it  *)
(* then decodes the strings it got, each with the options it was encoded   *)
(* with, in the order of the encodes.  In mode "validate" the caller hands *)
(* a build to the validator.  In mode "cursor" it works on the cursors of  *)
(* one buffer.                                                             *)
(*                                                                         *)
(* decode, encode and validate are async: a call is an action, and every   *)
(* time what it awaits settles (a lookup, or the promise of an async       *)
(* function of its own) is another.  A caller either awaits each call      *)
(* before it makes the next, or overlaps its calls: then several calls are *)
(* in flight at once, their awaits interleave, and the caller can change   *)
(* the build while an encode of it is in flight.  The callers that overlap *)
(* their calls start from a few links and builds.                          *)
(***************************************************************************)
OverlappedLinks == FixtureLinks

OverlappedBuilds ==
  { BuildCode(1, <<[id |-> 4, traits |-> <<1, 0, 3>>]>>,
              [EmptySkills EXCEPT !.heal = OFFSET + 1, !.utility1 = OFFSET + 3,
                                  !.elite = OFFSET + 9],
              NoProfessionSpecific, w, Absent) :
      w \in {Absent, Present(<<301>>)} }
    \cup
  { BuildCode(9, <<>>,
              [EmptySkills EXCEPT !.heal = OFFSET + 1, !.elite = OFFSET + 9],
              RevenantData(<<3, 5>>, Present(<<OFFSET + 11, 0, OFFSET + 14>>)),
              Absent, Absent) }

Awaits == [overlaps |-> FALSE, changed |-> FALSE]
Overlaps == [overlaps |-> TRUE, changed |-> FALSE]

VARIABLES
  mode,        \* "link", "build", "validate" or "cursor"
  chatLink,    \* the chat link handed to decode (mode "link")
  buildCode,   \* the build handed to encode
  mapper,      \* the palette mapper of every call
  decoded,     \* outcome of decode(chatLink, mapper)
  decodedAlt,  \* [variant, out]: a second decode of the same body
  encoded,     \* outcome of encode(buildCode, mapper)
  encodedAlt,  \* [variant, out]: a second encode of the same build
  redecoded,   \* outcome of decode(encoded.value, mapper)
  redecodedAlt, \* outcome of decode of the second encode's string, with
               \* the options of that encode
  metadataProvider, \* the provider of the validator (mode "validate")
  validation,  \* outcome of validate(buildCode)
  cursors,     \* the cursors over one buffer (mode "cursor")
  client       \* [overlaps, changed]: how the caller makes its calls

vars ==
  <<mode, chatLink, buildCode, mapper, decoded, decodedAlt, encoded,
    encodedAlt, redecoded, redecodedAlt, metadataProvider, validation,
    cursors, client>>

NoAlt == [variant |-> "none", out |-> NotCalled]
NoEncodeAlt == [variant |-> "none", out |-> EncodeNotCalled]

Init ==
  /\ mode \in {"link", "build", "validate", "cursor"}
  /\ IF mode = "cursor"
     THEN /\ chatLink = <<>>
          /\ buildCode = NoBuild
          /\ mapper = "mock"
          /\ metadataProvider = "mock"
          /\ cursors \in InitialCursors
          /\ client = Awaits
     ELSE cursors = NoCursors
  /\ IF mode = "cursor" THEN TRUE
     ELSE IF mode = "link"
     THEN /\ \/ client = Awaits /\ chatLink \in ChatLinks
             \/ client = Overlaps /\ chatLink \in OverlappedLinks
          /\ buildCode = NoBuild
          /\ mapper \in Mappers
          /\ metadataProvider = "mock"
     ELSE IF mode = "build"
     THEN /\ chatLink = <<>>
          /\ \/ client = Awaits /\ buildCode \in Builds
             \/ client = Overlaps /\ buildCode \in OverlappedBuilds
          /\ mapper \in Mappers
          /\ metadataProvider = "mock"
     ELSE /\ chatLink = <<>>
          /\ buildCode \in ValidatedBuilds
          /\ mapper = "mock"
          /\ metadataProvider \in MetadataProviders
          /\ client = Awaits
  /\ decoded = NotCalled
  /\ decodedAlt = NoAlt
  /\ encoded = EncodeNotCalled
  /\ encodedAlt = NoEncodeAlt
  /\ redecoded = NotCalled
  /\ redecodedAlt = NotCalled
  /\ validation = NotValidated

(* The same body in the other form: unwrapped if wrapped, wrapped if not.  *)
OtherForm(link) ==
  IF startsWithWrapper(link) THEN SubSeq(link, 3, Len(link) - 1)
  ELSE WrapInChatLink(link)

(* A call whose run issues the lookups run.calls, goes through the joins   *)
(* run.joins and ends as `run`.  From the point `out` (the lookups issued  *)
(* and the joins reached so far) it runs to its next await: the next join  *)
(* when no lookup comes before it, else the next lookup; with neither left *)
(* it runs to its end.  A lookup is an await when the code awaits its      *)
(* promise before it goes on (awaited); one it does not await is issued    *)
(* and the call runs on.  The string and the mapper of a decode do not     *)
(* change while it is in flight, so the run is the one of                  *)
(* decode(link, mapper, aquatic).                                          *)
RECURSIVE toNextAwait(_, _)
toNextAwait(run, out) ==
  IF /\ Len(out.joins) < Len(run.joins)
     /\ run.joins[Len(out.joins) + 1].after = Len(out.calls)
  THEN [out EXCEPT !.joins = Append(@, run.joins[Len(out.joins) + 1])]
  ELSE IF Len(out.calls) < Len(run.calls)
  THEN IF run.calls[Len(out.calls) + 1].awaited
       THEN [out EXCEPT !.calls = Append(@, run.calls[Len(out.calls) + 1])]
       ELSE toNextAwait(run, [out EXCEPT
                                !.calls = Append(@, run.calls[Len(out.calls) + 1])])
  ELSE run

(* What the caller holds once the call has run to its first await (or, a   *)
(* call that throws before any await, has rejected), and once what it      *)
(* awaits has settled and it has run on.                                   *)
called(run, pending) == toNextAwait(run, pending)

resumed(run, out) == toNextAwait(run, out)

(* The calls in flight.                                                    *)
InFlight ==
  { c \in {"decoded", "decodedAlt", "encoded", "encodedAlt", "redecoded",
           "redecodedAlt", "validation"} :
      CASE c = "decoded" -> decoded.status = "pending"
        [] c = "decodedAlt" -> decodedAlt.out.status = "pending"
        [] c = "encoded" -> encoded.status = "pending"
        [] c = "encodedAlt" -> encodedAlt.out.status = "pending"
        [] c = "redecoded" -> redecoded.status = "pending"
        [] c = "redecodedAlt" -> redecodedAlt.status = "pending"
        [] c = "validation" -> validation.status = "pending" }

(* The caller makes a call when nothing is in flight, or, the caller that  *)
(* overlaps its calls, whenever it likes.                                  *)
MayCall == client.overlaps \/ InFlight = {}

(* decode(chatLink, mapper)                                                *)
Decode ==
  /\ mode = "link"
  /\ decoded.status = "none"
  /\ decodedAlt.variant = "none"
  /\ MayCall
  /\ decoded' = called(decode(chatLink, mapper, FALSE), Pending(<<>>))
  /\ UNCHANGED <<mode, chatLink, buildCode, mapper, decodedAlt, encoded,
                 encodedAlt, redecoded, redecodedAlt,
                 metadataProvider, validation, cursors,
                 client>>

(* what decode(chatLink, mapper) awaits (a lookup, a join) settles         *)
DecodeResume ==
  /\ decoded.status = "pending"
  /\ decoded' = resumed(decode(chatLink, mapper, FALSE), decoded)
  /\ UNCHANGED <<mode, chatLink, buildCode, mapper, decodedAlt, encoded,
                 encodedAlt, redecoded, redecodedAlt,
                 metadataProvider, validation, cursors,
                 client>>

(* The run of the second decode, by its variant.                           *)
decodeAlt(variant) ==
  IF variant = "wrapper" THEN decode(OtherForm(chatLink), mapper, FALSE)
  ELSE decode(chatLink, mapper, TRUE)

(* decode of the same body with or without the [& ] wrapper                *)
DecodeOtherForm ==
  /\ mode = "link"
  /\ decodedAlt.variant = "none"
  /\ encoded.status = "none"
  /\ MayCall
  /\ decodedAlt' = [variant |-> "wrapper",
                    out |-> called(decodeAlt("wrapper"), Pending(<<>>))]
  /\ UNCHANGED <<mode, chatLink, buildCode, mapper, decoded, encoded,
                 encodedAlt, redecoded, redecodedAlt,
                 metadataProvider, validation, cursors,
                 client>>

(* decode(chatLink, mapper, {aquatic: true})                               *)
DecodeAquatic ==
  /\ mode = "link"
  /\ decodedAlt.variant = "none"
  /\ encoded.status = "none"
  /\ MayCall
  /\ decodedAlt' = [variant |-> "aquatic",
                    out |-> called(decodeAlt("aquatic"), Pending(<<>>))]
  /\ UNCHANGED <<mode, chatLink, buildCode, mapper, decoded, encoded,
                 encodedAlt, redecoded, redecodedAlt,
                 metadataProvider, validation, cursors,
                 client>>

(* what the second decode awaits settles                                   *)
DecodeAltResume ==
  /\ decodedAlt.out.status = "pending"
  /\ decodedAlt' = [decodedAlt EXCEPT
                      !.out = resumed(decodeAlt(decodedAlt.variant), @)]
  /\ UNCHANGED <<mode, chatLink, buildCode, mapper, decoded, encoded,
                 encodedAlt, redecoded, redecodedAlt,
                 metadataProvider, validation, cursors,
                 client>>

(* encode(build, mapper) of the record decode returned                     *)
EncodeDecoded ==
  /\ mode = "link"
  /\ decoded.status = "ok"
  /\ encoded.status = "none"
  /\ decodedAlt.variant = "none"
  /\ MayCall
  /\ buildCode' = decoded.value
  /\ encoded' = encodeCall(decoded.value, FALSE, TRUE)
  /\ UNCHANGED <<mode, chatLink, mapper, decoded, decodedAlt, encodedAlt,
                 redecoded, redecodedAlt,
                 metadataProvider, validation, cursors,
                 client>>

(* encode(buildCode, mapper)                                               *)
Encode ==
  /\ mode = "build"
  /\ encoded.status = "none"
  /\ encodedAlt.variant = "none"
  /\ MayCall
  /\ encoded' = encodeCall(buildCode, FALSE, TRUE)
  /\ UNCHANGED <<mode, chatLink, buildCode, mapper, decoded, decodedAlt,
                 encodedAlt, redecoded, redecodedAlt,
                 metadataProvider, validation, cursors,
                 client>>

(* the lookup encode(buildCode, mapper) awaits settles                     *)
EncodeResume ==
  /\ encoded.status = "pending"
  /\ encoded' = encodeResume(buildCode, mapper, encoded)
  /\ UNCHANGED <<mode, chatLink, buildCode, mapper, decoded, decodedAlt,
                 encodedAlt, redecoded, redecodedAlt,
                 metadataProvider, validation, cursors,
                 client>>

(* encode(buildCode, mapper, {aquatic: true})                              *)
EncodeAquatic ==
  /\ mode = "build"
  /\ encodedAlt.variant = "none"
  /\ redecoded.status = "none"
  /\ MayCall
  /\ encodedAlt' = [variant |-> "aquatic",
                    out |-> encodeCall(buildCode, TRUE, TRUE)]
  /\ UNCHANGED <<mode, chatLink, buildCode, mapper, decoded, decodedAlt,
                 encoded, redecoded, redecodedAlt,
                 metadataProvider, validation, cursors,
                 client>>

(* encode(buildCode, mapper, {wrapInChatLink: false})                      *)
EncodeBare ==
  /\ mode = "build"
  /\ encodedAlt.variant = "none"
  /\ redecoded.status = "none"
  /\ MayCall
  /\ encodedAlt' = [variant |-> "bare",
                    out |-> encodeCall(buildCode, FALSE, FALSE)]
  /\ UNCHANGED <<mode, chatLink, buildCode, mapper, decoded, decodedAlt,
                 encoded, redecoded, redecodedAlt,
                 metadataProvider, validation, cursors,
                 client>>

(* the lookup the second encode awaits settles                             *)
EncodeAltResume ==
  /\ encodedAlt.out.status = "pending"
  /\ encodedAlt' = [encodedAlt EXCEPT
                      !.out = encodeResume(buildCode, mapper, @)]
  /\ UNCHANGED <<mode, chatLink, buildCode, mapper, decoded, decodedAlt,
                 encoded, redecoded, redecodedAlt,
                 metadataProvider, validation, cursors,
                 client>>

(* The caller changes the build it handed to an encode that is in flight   *)
(* (build.weapons = [301, 302]; build.skills.elite = 0).                   *)
ChangedBuild(build) ==
  [build EXCEPT !.weapons = Present(<<301, 302>>), !.skills.elite = 0]

ChangeBuild ==
  /\ mode = "build"
  /\ client.overlaps
  /\ ~client.changed
  /\ InFlight \cap {"encoded", "encodedAlt"} # {}
  /\ buildCode' = ChangedBuild(buildCode)
  /\ client' = [client EXCEPT !.changed = TRUE]
  /\ UNCHANGED <<mode, chatLink, mapper, decoded, decodedAlt, encoded,
                 encodedAlt, redecoded, redecodedAlt, metadataProvider, validation, cursors>>

(* decode(s, mapper) of the string encode returned                         *)
DecodeEncoded ==
  /\ encoded.status = "ok"
  /\ redecoded.status = "none"
  /\ redecodedAlt.status = "none"
  /\ MayCall
  /\ redecoded' = called(decode(encoded.value, mapper, FALSE), Pending(<<>>))
  /\ UNCHANGED <<mode, chatLink, buildCode, mapper, decoded, decodedAlt,
                 encoded, encodedAlt, redecodedAlt,
                 metadataProvider, validation, cursors,
                 client>>

(* what decode(s, mapper) awaits settles                                   *)
DecodeEncodedResume ==
  /\ redecoded.status = "pending"
  /\ redecoded' = resumed(decode(encoded.value, mapper, FALSE), redecoded)
  /\ UNCHANGED <<mode, chatLink, buildCode, mapper, decoded, decodedAlt,
                 encoded, encodedAlt, redecodedAlt,
                 metadataProvider, validation, cursors,
                 client>>

(* The run of the decode of the second encode's string: with the aquatic  *)
(* option when the string was encoded with it.                             *)
decodeEncodedAlt ==
  decode(encodedAlt.out.value, mapper, encodedAlt.variant = "aquatic")

(* decode(s, mapper, options) of the string the second encode returned     *)
DecodeEncodedAlt ==
  /\ mode = "build"
  /\ encodedAlt.out.status = "ok"
  /\ redecodedAlt.status = "none"
  /\ encoded.status = "none" \/ redecoded.status \in {"ok", "error"}
  /\ MayCall
  /\ redecodedAlt' = called(decodeEncodedAlt, Pending(<<>>))
  /\ UNCHANGED <<mode, chatLink, buildCode, mapper, decoded, decodedAlt,
                 encoded, encodedAlt, redecoded,
                 metadataProvider, validation, cursors,
                 client>>

(* what that decode awaits settles                                         *)
DecodeEncodedAltResume ==
  /\ redecodedAlt.status = "pending"
  /\ redecodedAlt' = resumed(decodeEncodedAlt, redecodedAlt)
  /\ UNCHANGED <<mode, chatLink, buildCode, mapper, decoded, decodedAlt,
                 encoded, encodedAlt, redecoded,
                 metadataProvider, validation, cursors,
                 client>>

(* new BuildValidator(metadataProvider).validate(buildCode)                *)
Validate ==
  /\ mode = "validate"
  /\ validation.status = "none"
  /\ validation' = called(validate(buildCode, metadataProvider),
                          ValidationPending(<<>>))
  /\ UNCHANGED <<mode, chatLink, buildCode, mapper, decoded, decodedAlt,
                 encoded, encodedAlt, redecoded, redecodedAlt, metadataProvider, cursors,
                 client>>

(* what validate(buildCode) awaits settles                                 *)
ValidateResume ==
  /\ validation.status = "pending"
  /\ validation' = resumed(validate(buildCode, metadataProvider), validation)
  /\ UNCHANGED <<mode, chatLink, buildCode, mapper, decoded, decodedAlt,
                 encoded, encodedAlt, redecoded, redecodedAlt, metadataProvider, cursors,
                 client>>

Exists(n) == cursors.views[n] # NoView

Positions == [n \in CursorNames |-> position(cursors.views[n])]

(* An operation can be made on a cursor that exists, also after a read    *)
(* that threw; the number of operations is bounded by MaxCursorOps.        *)
CanOperate(n) ==
  /\ mode = "cursor"
  /\ Exists(n)
  /\ cursors.ops < MaxCursorOps

(* view.readByte()                                                         *)
ReadByte ==
  \E n \in CursorNames :
    /\ CanOperate(n)
    /\ LET r == readByte(cursors.buffer, cursors.views[n])
       IN cursors' =
            [cursors EXCEPT
               !.views[n] = r.view,
               !.history[n].readBytes = IF r.threw THEN @ ELSE @ + 1,
               !.history[n].failedBytes = IF r.threw THEN @ + 1 ELSE @,
               !.ops = @ + 1,
               !.last = Operation(n, "readByte", 0, r.value, r.threw, Positions)]
    /\ UNCHANGED <<mode, chatLink, buildCode, mapper, decoded, decodedAlt,
                   encoded, encodedAlt, redecoded, redecodedAlt, metadataProvider, validation,
                 client>>

(* view.readUInt16LE()                                                     *)
ReadUInt16LE ==
  \E n \in CursorNames :
    /\ CanOperate(n)
    /\ LET r == readUInt16LE(cursors.buffer, cursors.views[n])
       IN cursors' =
            [cursors EXCEPT
               !.views[n] = r.view,
               !.history[n].readWords = IF r.threw THEN @ ELSE @ + 1,
               !.history[n].failedWords = IF r.threw THEN @ + 1 ELSE @,
               !.ops = @ + 1,
               !.last = Operation(n, "readUInt16LE", 0, r.value, r.threw, Positions)]
    /\ UNCHANGED <<mode, chatLink, buildCode, mapper, decoded, decodedAlt,
                   encoded, encodedAlt, redecoded, redecodedAlt, metadataProvider, validation,
                 client>>

(* view.skip(bytes)                                                        *)
Skip ==
  \E n \in CursorNames, bytes \in SkipLengths :
    /\ CanOperate(n)
    /\ cursors' =
         [cursors EXCEPT
            !.views[n] = skip(@, bytes),
            !.history[n].skipped = @ + bytes,
            !.ops = @ + 1,
            !.last = Operation(n, "skip", bytes, 0, FALSE, Positions)]
    /\ UNCHANGED <<mode, chatLink, buildCode, mapper, decoded, decodedAlt,
                   encoded, encodedAlt, redecoded, redecodedAlt, metadataProvider, validation,
                 client>>

(* view.peekByte(offset)                                                   *)
PeekByte ==
  \E n \in CursorNames, offset \in PeekOffsets :
    /\ CanOperate(n)
    /\ LET r == peekByte(cursors.buffer, cursors.views[n], offset)
       IN cursors' =
            [cursors EXCEPT
               !.views[n] = r.view,
               !.ops = @ + 1,
               !.last = Operation(n, "peekByte", offset, r.value, r.threw, Positions)]
    /\ UNCHANGED <<mode, chatLink, buildCode, mapper, decoded, decodedAlt,
                   encoded, encodedAlt, redecoded, redecodedAlt, metadataProvider, validation,
                 client>>

(* sliced = view.slice(offset)                                             *)
Slice ==
  \E offset \in SliceOffsets :
    /\ CanOperate("view")
    /\ ~Exists("sliced")
    /\ cursors' =
         [cursors EXCEPT
            !.views["sliced"] = slice(cursors.views["view"], offset),
            !.history["sliced"] =
               [NoHistory EXCEPT !.start = position(cursors.views["view"]) + offset],
            !.ops = @ + 1,
            !.last = Operation("view", "slice", offset, 0, FALSE, Positions)]
    /\ UNCHANGED <<mode, chatLink, buildCode, mapper, decoded, decodedAlt,
                   encoded, encodedAlt, redecoded, redecodedAlt, metadataProvider, validation,
                 client>>

Next ==
  \/ Decode
  \/ DecodeResume
  \/ DecodeOtherForm
  \/ DecodeAquatic
  \/ DecodeAltResume
  \/ EncodeDecoded
  \/ Encode
  \/ EncodeResume
  \/ EncodeAquatic
  \/ EncodeBare
  \/ EncodeAltResume
  \/ ChangeBuild
  \/ DecodeEncoded
  \/ DecodeEncodedResume
  \/ DecodeEncodedAlt
  \/ DecodeEncodedAltResume
  \/ Validate
  \/ ValidateResume
  \/ ReadByte
  \/ ReadUInt16LE
  \/ Skip
  \/ PeekByte
  \/ Slice

Spec == Init /\ [][Next]_vars

(***************************************************************************)
(* Properties.                                                             *)
(***************************************************************************)

(* The call has returned or rejected (it is neither unmade nor in flight). *)
Settled(out) == out.status \in {"ok", "error"}


(* The caller has not changed the build while an encode of it was in       *)
(* flight: the build the calls were handed is buildCode.                   *)
BuildLeftAlone == ~client.changed

(* The base64 body of the chat link under decode, and its bytes.           *)
Body == IF startsWithWrapper(chatLink) THEN OtherForm(chatLink) ELSE chatLink
InputBuffer == Base64Decode(Body)
ByteAt(k) == InputBuffer[k + 1]
WordAt(k) == InputBuffer[k + 1] + 256 * InputBuffer[k + 2]

(* Mappers whose two directions are mutual inverses.                       *)
InverseMappers == {"mock", "byProfession"}

IsBuildCodeError(out, code) ==
  out.status = "error" /\ out.error.class = "BuildCodeError" /\ out.error.code = code

(* What a palette index read from the wire stands for: 0 for 0, the        *)
(* mapper's value otherwise.                                               *)
Mapped(profession, paletteIndex) ==
  IF paletteIndex = 0 THEN 0
  ELSE paletteToSkill(mapper, profession, paletteIndex).val

(* A build as decode is meant to return it: profession 1..9, non-zero      *)
(* specialization ids, the professionSpecific of its profession, non-empty *)
(* arrays, all ten skill slots.                                            *)
WellFormedBuild(b) ==
  /\ b.profession \in 1..9
  /\ Len(b.specializations) <= 3
  /\ \A i \in 1..Len(b.specializations) : b.specializations[i].id \in 1..255
  /\ DOMAIN b.skills = SkillNames
  /\ b.professionSpecific.type =
       (IF b.profession = 9 THEN "revenant"
        ELSE IF b.profession = 4 THEN b.professionSpecific.type
        ELSE "none")
  /\ b.professionSpecific.type \in {"none", "ranger", "revenant"}
  /\ b.professionSpecific.type = "ranger" => b.professionSpecific.pets # <<0, 0>>
  /\ b.weapons # Present(<<>>)
  /\ b.skillVariants # Present(<<>>)

(* C1: the round-trip law: for a build R with all ten skill slots and a    *)
(* mapper with mutually inverse directions, decode(encode(R)) equals R in  *)
(* every field.                                                            *)
C1_RoundTripLaw ==
  ( /\ mode = "build"
    /\ BuildLeftAlone
    /\ mapper \in InverseMappers
    /\ WellFormedBuild(buildCode)
    /\ encoded.status = "ok"
    /\ Settled(redecoded) )
  => /\ redecoded.status = "ok"
     /\ redecoded.value = buildCode

(* C2: for a chat link x that decode accepts (mapper with mutually inverse *)
(* directions), encode(decode(x)) gives back the bytes of x.               *)
C2_EncodeDecodeReproducesLink ==
  ( /\ mode = "link"
    /\ mapper \in InverseMappers
    /\ decoded.status = "ok"
    /\ Settled(encoded) )
  => /\ encoded.status = "ok"
     /\ Base64Decode(StripWrapper(encoded.value)) = InputBuffer

(* C3: for a valid base64 body b, decode('[&' + b + ']', m) and            *)
(* decode(b, m) have the same outcome: the same record or the same error.  *)
C3_WrapperEquivalence ==
  ( /\ mode = "link"
    /\ ValidBase64(Body)
    /\ Settled(decoded)
    /\ decodedAlt.variant = "wrapper"
    /\ Settled(decodedAlt.out) )
  => decodedAlt.out = decoded

C3_Witness ==
  /\ mode = "link"
  /\ startsWithWrapper(chatLink)
  /\ ValidBase64(Body)
  /\ decoded.status = "ok"
  /\ decoded.value.skills.heal # 0
  /\ decodedAlt.variant = "wrapper"
  /\ Settled(decodedAlt.out)

(* C4: decode rejects with INVALID_LENGTH exactly when the buffer has      *)
(* fewer than 44 bytes, otherwise with INVALID_TYPE exactly when byte 0 is *)
(* not 0x0D, otherwise with INVALID_PROFESSION exactly when byte 1 is      *)
(* outside 1..9; a buffer with several defects reports the first.          *)
C4_HeaderChecks ==
  LET buffer == InputBuffer
  IN
  Settled(decoded) =>
    LET short == Len(buffer) < 44
        badType == ~short /\ getUint8(buffer, 0) # 13
        badProfession == ~short /\ ~badType /\ ~(getUint8(buffer, 1) \in 1..9)
    IN /\ IsBuildCodeError(decoded, "INVALID_LENGTH") <=> short
       /\ IsBuildCodeError(decoded, "INVALID_TYPE") <=> badType
       /\ IsBuildCodeError(decoded, "INVALID_PROFESSION") <=> badProfession

C4_Witness ==
  /\ Len(InputBuffer) = 44
  /\ ByteAt(0) # 13
  /\ ByteAt(1) = 10
  /\ IsBuildCodeError(decoded, "INVALID_TYPE")

(* C5: when the body of the chat link is not valid base64, decode rejects  *)
(* with a BuildCodeError of kind BASE64_DECODE_FAILED.                     *)
C5_InvalidBase64Rejected ==
  ( /\ mode = "link"
    /\ \E i \in 1..Len(Body) : ~IsBase64Char(Body[i]) /\ Body[i] # "="
    /\ Settled(decoded) )
  => IsBuildCodeError(decoded, "BASE64_DECODE_FAILED")

(* C6: every failure of decode is a BuildCodeError carrying one of the     *)
(* five kinds, whatever the buffer length, the trailer and the mapper.     *)
C6_OnlyBuildCodeErrors ==
  decoded.status = "error" =>
    /\ decoded.error.class = "BuildCodeError"
    /\ decoded.error.code \in BuildCodeErrorCode

(* A lookup of the call was rejected by the mapper.                        *)
MapperRejected(out) ==
  \E i \in 1..Len(out.calls) :
    LET c == out.calls[i]
    IN IF c.fn = "paletteToSkill"
       THEN ~paletteToSkill(mapper, c.profession, c.arg).ok
       ELSE ~skillToPalette(mapper, c.profession, c.arg).ok

(* C7: whenever the mapper rejects during decode or encode, for a skill    *)
(* slot or a Revenant inactive-legend slot, the call rejects with          *)
(* PALETTE_LOOKUP_FAILED whose cause is the mapper's error.                *)
C7_MapperFailureWrapped ==
  /\ (Settled(decoded) /\ MapperRejected(decoded)) =>
       decoded.error = BuildCodeError("PALETTE_LOOKUP_FAILED", "MapperError")
  /\ (Settled(encoded) /\ MapperRejected(encoded)) =>
       encoded.error = BuildCodeError("PALETTE_LOOKUP_FAILED", "MapperError")

(* C8: the aquatic option has no effect: decode with {aquatic: true}       *)
(* returns what decode without options returns, and encode with            *)
(* {aquatic: true} returns the string encode without it returns.           *)
C8_AquaticHasNoEffect ==
  /\ (decodedAlt.variant = "aquatic" /\ Settled(decoded)
        /\ Settled(decodedAlt.out))
       => decodedAlt.out = decoded
  /\ (mode = "build" /\ BuildLeftAlone /\ encodedAlt.variant = "aquatic"
        /\ Settled(encoded) /\ Settled(encodedAlt.out))
       => encodedAlt.out = encoded

(* The flip branch of decodeRevenant is taken.                             *)
FlipCase ==
  LET buffer == InputBuffer
  IN /\ getUint8(buffer, 1) = 9
     /\ getUint8(buffer, 28) = 0
     /\ getUint8(buffer, 29) # 0

(* C9: decode reads the ten u16 palette indices at bytes 8-27 in           *)
(* interleaved pair order, for every profession: offset 8 heal, 10         *)
(* aquaticHeal, 12 utility1, 14 aquaticUtility1, 16 utility2, ...          *)
C9_InterleavedReadOrder ==
  (mode = "link" /\ decoded.status = "ok" /\ ~FlipCase) =>
    \A i \in 1..10 :
      decoded.value.skills[InterleavedSkillKeys[i]]
        = Mapped(ByteAt(1), WordAt(8 + 2 * (i - 1)))

(* The values the flip is stated with.  The primary utility1-3 slots are   *)
(* the words at bytes 12, 16 and 20 (the interleaved order), the inactive  *)
(* slots the words at bytes 32, 34 and 36, and the mapped value of a word  *)
(* is 0 for a word of 0 and the mapper's answer for any other.             *)
PrimaryUtilities == [i \in 1..3 |-> Mapped(9, WordAt(12 + 4 * (i - 1)))]

AltValues == [i \in 1..3 |-> Mapped(9, WordAt(32 + 2 * (i - 1)))]

UtilitiesOf(build) ==
  <<build.skills.utility1, build.skills.utility2, build.skills.utility3>>

(* C10: for a Revenant buffer with legend byte 28 equal to 0 and legend    *)
(* byte 29 equal to L, L non-zero, decode returns the one-element legend   *)
(* list [L], utility1-3 equal to the mapped values of the three u16 slots  *)
(* at bytes 32-37, and inactiveSkills equal to the values the primary      *)
(* utility1-3 slots had decoded to.                                        *)
C10_Flip ==
  (mode = "link" /\ decoded.status = "ok" /\ FlipCase) =>
    /\ decoded.value.professionSpecific.type = "revenant"
    /\ decoded.value.professionSpecific.legends = <<ByteAt(29)>>
    /\ UtilitiesOf(decoded.value) = AltValues
    /\ decoded.value.professionSpecific.inactiveSkills
         = Present(PrimaryUtilities)

(* C11: decoding a buffer whose profession byte is 3 (Engineer), or any    *)
(* profession other than Ranger (4) and Revenant (9), yields               *)
(* professionSpecific absent, whatever bytes 28-43 and the trailer hold,   *)
(* with and without the aquatic option.                                    *)
C11_NoProfessionSpecificElsewhere ==
  /\ (mode = "link" /\ decoded.status = "ok" /\ ~(ByteAt(1) \in {4, 9}))
       => decoded.value.professionSpecific = NoProfessionSpecific
  /\ (mode = "link" /\ decodedAlt.out.status = "ok" /\ ~(ByteAt(1) \in {4, 9}))
       => decodedAlt.out.value.professionSpecific = NoProfessionSpecific

C11_Witness ==
  /\ mode = "link"
  /\ decoded.status = "ok"
  /\ ByteAt(1) = 3
  /\ ByteAt(28) # 0
  /\ ByteAt(29) # 0
  /\ WordAt(32) # 0
  /\ decoded.value.professionSpecific = NoProfessionSpecific

(* The u32 little-endian value at bytes k..k+3 of the input buffer.        *)
DWordAt(k) == WordAt(k) + 65536 * WordAt(k + 2)

(* The header of the input buffer passes the three checks of decode.       *)
ValidHeader ==
  LET b == InputBuffer IN Len(b) >= 44 /\ b[1] = 13 /\ b[2] \in 1..9

(* The count bytes of the trailer fit the length of the input buffer.      *)
TrailerFits ==
  /\ Len(InputBuffer) >= 46
  /\ 46 + 2 * ByteAt(44) <= Len(InputBuffer)
  /\ 46 + 2 * ByteAt(44) + 4 * ByteAt(45 + 2 * ByteAt(44)) <= Len(InputBuffer)

(* C12: for a buffer longer than 44 bytes decode reads byte 44 as weapon   *)
(* count w, then w u16 weapon ids, then one byte as variant count v, then  *)
(* v u32 variant ids, all unmapped; weapons is absent when w = 0 and       *)
(* skillVariants absent when v = 0; for exactly 44 bytes both are absent;  *)
(* and a buffer of 46 or more bytes whose count bytes fit its length does  *)
(* decode (valid header, no lookup rejected).                              *)
C12_TrailerDecoding ==
  mode = "link" =>
    /\ (decoded.status = "ok" /\ Len(InputBuffer) = 44) =>
         /\ decoded.value.weapons = Absent
         /\ decoded.value.skillVariants = Absent
    /\ (decoded.status = "ok" /\ Len(InputBuffer) > 44) =>
         LET w == ByteAt(44)
             v == ByteAt(45 + 2 * w)
         IN /\ decoded.value.weapons =
                 (IF w = 0 THEN Absent
                  ELSE Present([i \in 1..w |-> WordAt(45 + 2 * (i - 1))]))
            /\ decoded.value.skillVariants =
                 (IF v = 0 THEN Absent
                  ELSE Present([i \in 1..v |->
                                  DWordAt(46 + 2 * w + 4 * (i - 1))]))
    /\ (Settled(decoded) /\ ValidHeader /\ TrailerFits
          /\ ~MapperRejected(decoded)) => decoded.status = "ok"

(* The bytes of the string encode returned.                                *)
EncodedBuffer == Base64Decode(StripWrapper(encoded.value))

(* The u32 little-endian value of the four bytes of a buffer from pos.     *)
getUint32LE(buffer, pos) ==
  buffer[pos + 1] + 256 * buffer[pos + 2]
    + 65536 * buffer[pos + 3] + 16777216 * buffer[pos + 4]

(* C13: encode produces exactly 44 bytes when weapons and skillVariants    *)
(* are both absent or empty; otherwise 44 + 1 + 2*|weapons| + 1 +          *)
(* 4*|skillVariants| bytes, with both count bytes written (zero for an     *)
(* absent or empty sub-section), weapons as u16 little-endian and variants *)
(* as u32 little-endian.                                                   *)
C13_EncodedSize ==
  LET buffer == EncodedBuffer
  IN
  (mode = "build" /\ BuildLeftAlone /\ encoded.status = "ok") =>
    LET weapons == arrayOf(buildCode.weapons)
        variants == arrayOf(buildCode.skillVariants)
        nw == Len(weapons)
        nv == Len(variants)
    IN IF nw = 0 /\ nv = 0
       THEN Len(buffer) = 44
       ELSE /\ Len(buffer) = 44 + 1 + 2 * nw + 1 + 4 * nv
            /\ getUint8(buffer, 44) = nw
            /\ \A k \in 1..nw :
                 getUint16LE(buffer, 45 + 2 * (k - 1)) = weapons[k]
            /\ getUint8(buffer, 45 + 2 * nw) = nv
            /\ \A k \in 1..nv :
                 getUint32LE(buffer, 46 + 2 * nw + 4 * (k - 1))
                   = variants[k]

C13_Witness ==
  /\ mode = "build"
  /\ encoded.status = "ok"
  /\ buildCode.weapons = Present(<<>>)
  /\ Len(arrayOf(buildCode.skillVariants)) = MaxTrailer
  /\ Len(EncodedBuffer) = 46 + 4 * MaxTrailer
  /\ getUint8(EncodedBuffer, 44) = 0

(* C14: encode returns '[&' + base64 + ']' when wrapInChatLink is true or  *)
(* not given and the bare base64 string when it is false; the two outputs  *)
(* for the same build decode to equal records.                             *)
C14_WrapOption ==
  (mode = "build" /\ BuildLeftAlone) =>
    /\ encoded.status = "ok" =>
         /\ startsWithWrapper(encoded.value)
         /\ encoded.value[Len(encoded.value)] = "]"
         /\ ValidBase64(SubSeq(encoded.value, 3, Len(encoded.value) - 1))
    /\ (encodedAlt.variant = "bare" /\ encodedAlt.out.status = "ok") =>
         /\ ValidBase64(encodedAlt.out.value)
         /\ ~startsWithWrapper(encodedAlt.out.value)
         /\ encodedAlt.out.value[Len(encodedAlt.out.value)] # "]"
    /\ (encodedAlt.variant = "bare" /\ Settled(encoded)
          /\ Settled(encodedAlt.out)) =>
         /\ encodedAlt.out.status = encoded.status
         /\ encoded.status = "ok" =>
              encoded.value = <<"[", "&">> \o encodedAlt.out.value \o <<"]">>
    /\ (encodedAlt.variant = "bare" /\ encodedAlt.out.status = "ok"
          /\ encoded.status = "ok") =>
         decode(encodedAlt.out.value, mapper, FALSE)
           = decode(encoded.value, mapper, FALSE)

C14_Witness ==
  /\ mode = "build"
  /\ encoded.status = "ok"
  /\ encodedAlt.variant = "bare"
  /\ encodedAlt.out.status = "ok"
  /\ decode(encodedAlt.out.value, mapper, FALSE).status = "ok"
  /\ decode(encoded.value, mapper, FALSE).value.skills.heal # 0
  /\ Len(encoded.value) = Len(encodedAlt.out.value) + 3

(* The failing items of the build under validation: the skill slots whose  *)
(* non-zero id is unknown or of another profession, the specializations    *)
(* (by position) that are unknown or of another profession, and, for a     *)
(* Ranger record and a provider with getPetInfo, the unknown non-zero pets.*)
FailingSkillSlots ==
  { k \in SkillNames :
      /\ buildCode.skills[k] # 0
      /\ \/ buildCode.skills[k] \notin DOMAIN validSkills
         \/ getProfessionName(buildCode.profession)
              \notin Range(validSkills[buildCode.skills[k]].professions) }

FailingSpecializations ==
  { i \in 1..Len(buildCode.specializations) :
      LET id == buildCode.specializations[i].id
      IN \/ id \notin DOMAIN validSpecs
         \/ validSpecs[id].profession # getProfessionName(buildCode.profession) }

FailingPets ==
  IF buildCode.professionSpecific.type = "ranger"
       /\ hasGetPetInfo(metadataProvider)
  THEN { i \in 1..2 :
           /\ buildCode.professionSpecific.pets[i] # 0
           /\ buildCode.professionSpecific.pets[i] \notin DOMAIN validPets }
  ELSE {}

ErrorsOfType(types) ==
  { i \in 1..Len(validation.errors) : validation.errors[i].type \in types }

(* C15: validate does not stop at the first failing item: its result holds *)
(* one error for every failing item of the build (skill slot,              *)
(* specialization, pet), each error's context naming the offending id;     *)
(* valid is true exactly when the error list is empty; warnings is empty.  *)
C15_ErrorsAccumulate ==
  (mode = "validate" /\ validation.status = "ok") =>
    /\ Len(validation.errors)
         = Cardinality(FailingSkillSlots) + Cardinality(FailingSpecializations)
             + Cardinality(FailingPets)
    /\ \A k \in FailingSkillSlots :
         \E i \in ErrorsOfType({"INVALID_SKILL_ID", "SKILL_NOT_FOR_PROFESSION"}) :
           validation.errors[i].context.skillId = buildCode.skills[k]
    /\ \A n \in FailingSpecializations :
         \E i \in ErrorsOfType({"INVALID_SPECIALIZATION_ID",
                                "SPECIALIZATION_NOT_FOR_PROFESSION"}) :
           validation.errors[i].context.specializationId
             = buildCode.specializations[n].id
    /\ \A n \in FailingPets :
         \E i \in ErrorsOfType({"INVALID_PET_ID"}) :
           /\ validation.errors[i].context.petId
                = buildCode.professionSpecific.pets[n]
           /\ validation.errors[i].context.petSlot = n - 1
    /\ validation.valid <=> (validation.errors = <<>>)
    /\ validation.warnings = <<>>

(* One unknown skill id and one specialization of another profession:      *)
(* exactly two errors.                                                     *)
C15_Witness ==
  /\ mode = "validate"
  /\ validation.status = "ok"
  /\ buildCode.profession = 8
  /\ buildCode.skills.heal = 99999
  /\ Cardinality(FailingSkillSlots) = 1
  /\ Cardinality(FailingSpecializations) = 1
  /\ Len(validation.errors) = 2
  /\ validation.errors[1].type = "INVALID_SKILL_ID"
  /\ validation.errors[1].context.skillId = 99999
  /\ validation.errors[2].type = "SPECIALIZATION_NOT_FOR_PROFESSION"
  /\ validation.errors[2].context.specializationId = 27
  /\ ~validation.valid

(* C16: validate always resolves with a ValidationResult and never         *)
(* rejects, whatever the build and whatever the metadata provider does (a  *)
(* lookup that finds the item, finds nothing, or fails).                   *)
C16_ValidateNeverRejects ==
  (mode = "validate" /\ Settled(validation)) => validation.status = "ok"

(* The lookups validate makes for a function of the provider, in order.    *)
RECURSIVE LookupsOf(_, _)
LookupsOf(calls, fn) ==
  IF calls = <<>> THEN <<>>
  ELSE IF Head(calls).fn = fn THEN <<Head(calls).arg>> \o LookupsOf(Tail(calls), fn)
  ELSE LookupsOf(Tail(calls), fn)

RECURSIVE NonZero(_)
NonZero(ids) ==
  IF ids = <<>> THEN <<>>
  ELSE IF Head(ids) = 0 THEN NonZero(Tail(ids))
  ELSE <<Head(ids)>> \o NonZero(Tail(ids))

(* The errors of the result about one id, by type.                         *)
SkillErrorsFor(id, type) ==
  { i \in ErrorsOfType({type}) : validation.errors[i].context.skillId = id }

SpecErrorsFor(id, type) ==
  { i \in ErrorsOfType({type}) :
      validation.errors[i].context.specializationId = id }

SlotsHolding(id) == { k \in SkillNames : buildCode.skills[k] = id }

PositionsHolding(id) ==
  { i \in 1..Len(buildCode.specializations) :
      buildCode.specializations[i].id = id }

(* C17: for each skill slot with a non-zero id and each specialization,    *)
(* validate makes one lookup; not found gives exactly one INVALID_SKILL_ID *)
(* (INVALID_SPECIALIZATION_ID) error, found for another profession exactly *)
(* one SKILL_NOT_FOR_PROFESSION (SPECIALIZATION_NOT_FOR_PROFESSION) error, *)
(* otherwise no error; a slot holding 0 is never looked up.                *)
C17_OneLookupPerItem ==
  (mode = "validate" /\ validation.status = "ok") =>
    LET professionName == getProfessionName(buildCode.profession)
    IN
    /\ LookupsOf(validation.calls, "getSkillInfo")
         = NonZero([i \in 1..10 |-> buildCode.skills[validatedSlots[i]]])
    /\ LookupsOf(validation.calls, "getSpecializationInfo")
         = [i \in 1..Len(buildCode.specializations) |->
              buildCode.specializations[i].id]
    /\ \A k \in SkillNames :
         LET id == buildCode.skills[k]
             unknown == id \notin DOMAIN validSkills
             foreign == ~unknown
                        /\ professionName \notin Range(validSkills[id].professions)
         IN id # 0 =>
              /\ Cardinality(SkillErrorsFor(id, "INVALID_SKILL_ID"))
                   = IF unknown THEN Cardinality(SlotsHolding(id)) ELSE 0
              /\ Cardinality(SkillErrorsFor(id, "SKILL_NOT_FOR_PROFESSION"))
                   = IF foreign THEN Cardinality(SlotsHolding(id)) ELSE 0
    /\ \A n \in 1..Len(buildCode.specializations) :
         LET id == buildCode.specializations[n].id
             unknown == id \notin DOMAIN validSpecs
             foreign == ~unknown /\ validSpecs[id].profession # professionName
         IN /\ Cardinality(SpecErrorsFor(id, "INVALID_SPECIALIZATION_ID"))
                 = IF unknown THEN Cardinality(PositionsHolding(id)) ELSE 0
            /\ Cardinality(SpecErrorsFor(id, "SPECIALIZATION_NOT_FOR_PROFESSION"))
                 = IF foreign THEN Cardinality(PositionsHolding(id)) ELSE 0

C17_Witness ==
  /\ mode = "validate"
  /\ validation.status = "ok"
  /\ buildCode.profession = 1
  /\ buildCode.skills.heal = 0
  /\ buildCode.skills.utility1 = 10200
  /\ buildCode.skills.aquaticElite = 99999
  /\ Len(buildCode.specializations) = 3
  /\ validation.calls[1] = LookupCall("getSkillInfo", 10200)
  /\ Cardinality(SpecErrorsFor(99, "INVALID_SPECIALIZATION_ID")) = 2
  /\ Cardinality(SkillErrorsFor(10200, "SKILL_NOT_FOR_PROFESSION")) = 1

(* The lookups of a call with a non-zero argument, in the order made.      *)
RECURSIVE NonZeroCalls(_)
NonZeroCalls(calls) ==
  IF calls = <<>> THEN <<>>
  ELSE IF Head(calls).arg = 0 THEN NonZeroCalls(Tail(calls))
  ELSE <<Head(calls)>> \o NonZeroCalls(Tail(calls))

IsPrefix(s, t) == Len(s) <= Len(t) /\ SubSeq(t, 1, Len(s)) = s

(* Did the mapper reject this lookup.                                      *)
CallRejected(c) ==
  IF c.fn = "paletteToSkill"
  THEN ~paletteToSkill(mapper, c.profession, c.arg).ok
  ELSE ~skillToPalette(mapper, c.profession, c.arg).ok

(* The lookups decode has to make for the input buffer, in wire order: the *)
(* ten skill slots by ascending offset, then, for a Revenant with a second *)
(* legend, the three inactive-legend slots at bytes 32-37.                 *)
WireLookupsOfDecode ==
  LET b == InputBuffer
  IN NonZeroCalls(
       [i \in 1..10 |-> PaletteCall(b[2], getUint16LE(b, 8 + 2 * (i - 1)))]
       \o (IF b[2] = 9 /\ b[30] # 0
           THEN [i \in 1..3 |-> PaletteCall(9, getUint16LE(b, 32 + 2 * (i - 1)))]
           ELSE <<>>))

(* The lookups encode has to make for the build, in wire order: the ten    *)
(* skill slots, then, for a revenant professionSpecific with               *)
(* inactiveSkills, the three inactive slots at bytes 32-37 (a slot the     *)
(* array has no item for is looked up as undefined).                       *)
WireLookupsOfEncode ==
  NonZeroCalls(
    [i \in 1..10 |->
       SkillCall(buildCode.profession,
                 skillOrZero(buildCode.skills, InterleavedSkillKeys[i]))]
    \o (IF /\ buildCode.professionSpecific.type = "revenant"
           /\ buildCode.professionSpecific.inactiveSkills # Absent
        THEN LET inactiveSkills ==
                   arrayOf(buildCode.professionSpecific.inactiveSkills)
             IN [i \in 1..3 |->
                   SkillCall(9, IF i <= Len(inactiveSkills)
                                THEN inactiveSkills[i] ELSE undefined)]
        ELSE <<>>))

(* The lookups of a call, in flight or settled, follow the wire order and  *)
(* stop at the first rejected one; a rejected lookup leaves no value, and  *)
(* a call in flight has no value either.                                   *)
SequentialFailFast(out, wireLookups, noValue) ==
  /\ IsPrefix(NonZeroCalls(out.calls), wireLookups)
  /\ \A i \in 1..Len(out.calls) :
       CallRejected(out.calls[i]) => (i = Len(out.calls) /\ out.status # "ok")
  /\ out.status = "ok" => NonZeroCalls(out.calls) = wireLookups
  /\ out.status # "ok" => out.value = noValue

(* One lookup at a time: a step of a call issues at most one lookup, after *)
(* the ones it had issued; and every lookup issued is awaited, that is,    *)
(* the call is suspended until it has settled, so that the next lookup is  *)
(* issued by the step that sees this one settled.                          *)
OneAtATime(before, after) ==
  /\ IsPrefix(before.calls, after.calls)
  /\ Len(after.calls) <= Len(before.calls) + 1
  /\ \A i \in 1..Len(after.calls) : after.calls[i].awaited

(* C18: within one decode or encode call the mapper is called one lookup   *)
(* at a time (a lookup is issued only after the previous one has           *)
(* resolved), in wire field order: the ten skill slots by ascending byte   *)
(* offset, then the Revenant inactive-legend slots; once a lookup fails no *)
(* further lookup is issued and the call rejects without a record or a     *)
(* string.                                                                 *)
C18_SequentialLookups ==
  /\ [](/\ (mode = "link" /\ decoded.status # "none" /\ ValidHeader)
            => SequentialFailFast(decoded, WireLookupsOfDecode, NoBuild)
        /\ (mode \in {"link", "build"} /\ BuildLeftAlone
              /\ encoded.status # "none")
            => SequentialFailFast(encoded, WireLookupsOfEncode, <<>>))
  /\ [][/\ OneAtATime(decoded, decoded')
        /\ OneAtATime(decodedAlt.out, decodedAlt'.out)
        /\ OneAtATime(redecoded, redecoded')
        /\ OneAtATime(redecodedAlt, redecodedAlt')
        /\ OneAtATime(encoded, encoded')
        /\ OneAtATime(encodedAlt.out, encodedAlt'.out)]_vars

C18_Witness ==
  /\ mode = "link"
  /\ decoded.status = "error"
  /\ Len(decoded.calls) > 1
  /\ ValidHeader
  /\ ByteAt(1) = 9
  /\ ByteAt(29) # 0
  /\ CallRejected(decoded.calls[Len(decoded.calls)])
  /\ ~CallRejected(decoded.calls[Len(decoded.calls) - 1])
  /\ Len(NonZeroCalls(decoded.calls)) < Len(WireLookupsOfDecode)

(* The specialization bytes, the ten skill slots and the three inactive-   *)
(* legend slots of the input buffer are all zero.                          *)
AllZeroBody ==
  /\ \A k \in 2..27 : ByteAt(k) = 0
  /\ \A k \in 32..37 : ByteAt(k) = 0

(* C19: during decode a raw palette index of 0 is never sent to the        *)
(* mapper, for the ten skill slots and the three Revenant inactive-legend  *)
(* slots alike, and a slot whose raw index is 0 decodes to 0; a buffer     *)
(* whose specialization and skill bytes are all zero decodes without error *)
(* to all-zero skill slots with no mapper call.                            *)
C19_ZeroNeverLookedUp ==
  (mode = "link" /\ Settled(decoded) /\ ValidHeader) =>
    /\ \A i \in 1..Len(decoded.calls) : decoded.calls[i].arg # 0
    /\ (decoded.status = "ok" /\ ByteAt(1) = 9 /\ ByteAt(28) # 0 /\ ByteAt(29) # 0)
         => \A i \in 1..3 :
              WordAt(32 + 2 * (i - 1)) = 0
                => arrayOf(decoded.value.professionSpecific.inactiveSkills)[i] = 0
    /\ AllZeroBody
         => /\ decoded.status = "ok"
            /\ decoded.calls = <<>>
            /\ \A k \in SkillNames : decoded.value.skills[k] = 0

(* The palette index encode has to write for a skill id.                   *)
PaletteOf(profession, skillId) ==
  IF skillId = 0 THEN 0
  ELSE skillToPalette(mapper, profession, skillId).val

(* C20: encode writes the ten skill slots as u16 little-endian at bytes    *)
(* 8-27 in the order heal, aquaticHeal, utility1, aquaticUtility1,         *)
(* utility2, aquaticUtility2, utility3, aquaticUtility3, elite,            *)
(* aquaticElite, which is the slot-to-offset assignment decode reads them  *)
(* with; a slot whose id is 0 or missing is written as 0 without calling   *)
(* the mapper, any other as skillToPalette(build.profession, id).          *)
C20_EncodeSlotOrder ==
  (mode = "build" /\ BuildLeftAlone /\ encoded.status = "ok") =>
    /\ \A i \in 1..10 :
         getUint16LE(EncodedBuffer, 8 + 2 * (i - 1))
           = PaletteOf(buildCode.profession,
                       skillOrZero(buildCode.skills, InterleavedSkillKeys[i]))
    /\ \A i \in 1..Len(encoded.calls) : encoded.calls[i].arg # 0
    /\ (redecoded.status = "ok" /\ buildCode.profession # 9)
         => \A i \in 1..10 :
              redecoded.value.skills[InterleavedSkillKeys[i]]
                = Mapped(buildCode.profession,
                         getUint16LE(EncodedBuffer, 8 + 2 * (i - 1)))

(* The traits a trait byte stands for, from its low six bits alone.        *)
TraitsOfByte(b) ==
  LET low == b % 64
  IN <<low % 4, (low \div 4) % 4, low \div 16>>

(* The (id, traits) pair at slot i (0..2) of bytes 2-7 of the input.       *)
WirePair(buffer, i) ==
  [id |-> getUint8(buffer, 2 + 2 * i),
   traits |-> TraitsOfByte(getUint8(buffer, 3 + 2 * i))]

IsSelected(pair) == pair.id # 0

(* C21: decode emits, in wire order, one Specialization for each of the    *)
(* three (id, traits) pairs at bytes 2-7 whose id byte is non-zero and     *)
(* nothing for a pair whose id is 0; the traits of trait byte b are        *)
(* (b & 3, (b >> 2) & 3, (b >> 4) & 3), and bits 6-7 of b do not affect    *)
(* the result.                                                             *)
C21_SpecializationsDecoded ==
  (mode = "link" /\ decoded.status = "ok") =>
    /\ decoded.value.specializations
         = LET buffer == InputBuffer
           IN SelectSeq([i \in 1..3 |-> WirePair(buffer, i - 1)], IsSelected)
    /\ Len(decoded.value.specializations) \in 0..3
    /\ \A i \in 1..Len(decoded.value.specializations) :
         decoded.value.specializations[i].id # 0

C21_Witness ==
  /\ mode = "link"
  /\ decoded.status = "ok"
  /\ ByteAt(2) = 0
  /\ ByteAt(4) # 0
  /\ ByteAt(5) >= 64
  /\ ByteAt(6) = 0
  /\ Len(decoded.value.specializations) = 1
  /\ decoded.value.specializations[1].traits = <<1, 1, 2>>

(* The (id, traits) byte pair encode has to write at slot i (0..2).        *)
PairToWrite(specializations, i) ==
  IF i < Len(specializations)
  THEN LET spec == specializations[i + 1]
       IN <<spec.id, spec.traits[1] + 4 * spec.traits[2] + 16 * spec.traits[3]>>
  ELSE <<0, 0>>

(* C22: encode always writes exactly three (id, traits) pairs at bytes     *)
(* 2-7: the i-th specialization of the build for i below the sequence      *)
(* length, (0, 0) for every remaining slot, and nothing for                *)
(* specializations beyond the third; for trait values in 0..3 the trait    *)
(* byte is t0 | t1 << 2 | t2 << 4, so its bits 6-7 are zero.               *)
C22_SpecializationsEncoded ==
  LET buffer == EncodedBuffer
  IN
  (mode = "build" /\ BuildLeftAlone /\ encoded.status = "ok") =>
    /\ \A i \in 0..2 :
         /\ <<buffer[3 + 2 * i], buffer[4 + 2 * i]>>
              = PairToWrite(buildCode.specializations, i)
         /\ buffer[4 + 2 * i] < 64
    /\ buffer[1] = OFFICIAL_TYPE_INDICATOR
    /\ buffer[2] = buildCode.profession
    /\ getUint16LE(buffer, 8)
         = PaletteOf(buildCode.profession, skillOrZero(buildCode.skills, "heal"))

C22_Witness ==
  /\ mode = "build"
  /\ encoded.status = "ok"
  /\ Len(buildCode.specializations) = 4
  /\ skillOrZero(buildCode.skills, "heal") = 0
  /\ EncodedBuffer[7] = buildCode.specializations[3].id
  /\ EncodedBuffer[8] = 63
  /\ EncodedBuffer[9] = 0

(* C23: for a Revenant buffer that does not take the flip branch: if       *)
(* legend byte 29 is 0, decode returns the one-element legend list         *)
(* [byte 28] with inactiveSkills absent, whatever bytes 32-37 hold; if     *)
(* bytes 28 and 29 are both non-zero, it returns legends                   *)
(* [byte 28, byte 29] and inactiveSkills equal to the three mapped values  *)
(* of bytes 32-37 when at least one of them is non-zero, and absent when   *)
(* all three are zero.                                                     *)
C23_RevenantWithoutFlip ==
  LET buffer == InputBuffer
  IN
  (mode = "link" /\ decoded.status = "ok" /\ getUint8(buffer, 1) = 9
     /\ ~FlipCase) =>
    /\ decoded.value.professionSpecific.type = "revenant"
    /\ getUint8(buffer, 29) = 0 =>
         /\ decoded.value.professionSpecific.legends = <<getUint8(buffer, 28)>>
         /\ decoded.value.professionSpecific.inactiveSkills = Absent
    /\ (getUint8(buffer, 28) # 0 /\ getUint8(buffer, 29) # 0) =>
         /\ decoded.value.professionSpecific.legends
              = <<getUint8(buffer, 28), getUint8(buffer, 29)>>
         /\ decoded.value.professionSpecific.inactiveSkills
              = IF \E i \in 1..3 : AltValues[i] # 0
                THEN Present(AltValues) ELSE Absent

(* The last n elements of a sequence.                                      *)
LastN(s, n) == SubSeq(s, Len(s) - n + 1, Len(s))

(* C24: for a build with Revenant professionSpecific, encode writes        *)
(* legends[0] at byte 28 and legends[1] (0 when absent) at byte 29, leaves *)
(* bytes 30-31 zero, and writes the three inactiveSkills at bytes 32-37 as *)
(* u16 little-endian skillToPalette(9, id) (0 for an id of 0, all zero     *)
(* when inactiveSkills is absent); these are the offsets decode with       *)
(* default options reads the legends and the inactive slots from.          *)
C24_RevenantEncoded ==
  LET buffer == EncodedBuffer
  IN
  (mode = "build" /\ BuildLeftAlone /\ encoded.status = "ok"
     /\ buildCode.professionSpecific.type = "revenant") =>
    LET profSpec == buildCode.professionSpecific
    IN /\ buffer[29] = profSpec.legends[1]
       /\ buffer[30]
            = (IF Len(profSpec.legends) >= 2 THEN profSpec.legends[2] ELSE 0)
       /\ buffer[31] = 0
       /\ buffer[32] = 0
       /\ \A i \in 1..3 :
            /\ profSpec.inactiveSkills = Absent
                 => getUint16LE(buffer, 32 + 2 * (i - 1)) = 0
            /\ i <= Len(arrayOf(profSpec.inactiveSkills))
                 => getUint16LE(buffer, 32 + 2 * (i - 1))
                      = PaletteOf(9, arrayOf(profSpec.inactiveSkills)[i])
       /\ \A k \in 38..43 : buffer[k + 1] = 0
       /\ (redecoded.status = "ok" /\ buildCode.profession = 9) =>
            /\ redecoded.value.professionSpecific.legends
                 = (IF buffer[30] # 0
                    THEN <<buffer[29], buffer[30]>>
                    ELSE <<buffer[29]>>)
            /\ buffer[30] # 0 =>
                 LastN(redecoded.calls, 3)
                   = [i \in 1..3 |->
                        PaletteCall(9, getUint16LE(buffer, 32 + 2 * (i - 1)))]

C24_Witness ==
  /\ mode = "build"
  /\ encoded.status = "ok"
  /\ redecoded.status = "ok"
  /\ buildCode.profession = 9
  /\ buildCode.professionSpecific.type = "revenant"
  /\ buildCode.professionSpecific.legends = <<3, 5>>
  /\ buildCode.professionSpecific.inactiveSkills
       = Present(<<OFFSET + 11, 0, OFFSET + 14>>)
  /\ getUint16LE(EncodedBuffer, 32) = 11
  /\ getUint16LE(EncodedBuffer, 34) = 0
  /\ getUint16LE(EncodedBuffer, 36) = 14

(* C25: for a Ranger buffer (profession 4) decode takes the two pet ids    *)
(* directly from bytes 28 and 29 without any mapper call;                  *)
(* professionSpecific is absent when both bytes are 0, and otherwise is    *)
(* {type 'ranger', pets [byte 28, byte 29]}, keeping a 0 for the empty     *)
(* slot.                                                                   *)
C25_RangerPets ==
  LET buffer == InputBuffer
  IN
  (mode = "link" /\ decoded.status = "ok" /\ getUint8(buffer, 1) = 4) =>
    /\ decoded.value.professionSpecific
         = (IF getUint8(buffer, 28) = 0 /\ getUint8(buffer, 29) = 0
            THEN NoProfessionSpecific
            ELSE RangerData(<<getUint8(buffer, 28), getUint8(buffer, 29)>>))
    /\ decoded.calls
         = NonZeroCalls([i \in 1..10 |->
                           PaletteCall(4, getUint16LE(buffer, 8 + 2 * (i - 1)))])

C25_Witness ==
  /\ mode = "link"
  /\ decoded.status = "ok"
  /\ ByteAt(1) = 4
  /\ ByteAt(28) = 0
  /\ ByteAt(29) # 0
  /\ decoded.value.professionSpecific.type = "ranger"
  /\ decoded.value.professionSpecific.pets = <<0, ByteAt(29)>>
  /\ decoded.calls = <<>>

(* The INVALID_PET_ID errors of the result about pet slot i (0 or 1).      *)
PetErrorsFor(i) ==
  { n \in ErrorsOfType({"INVALID_PET_ID"}) : validation.errors[n].context.petSlot = i }

(* C26: validate looks up pets only for a build whose professionSpecific   *)
(* is of type 'ranger', and only when the metadata provider offers         *)
(* getPetInfo: each non-zero pet id gets one lookup and a not-found result *)
(* gives exactly one INVALID_PET_ID error; a pet id of 0 is never looked   *)
(* up, and a provider without getPetInfo gives no pet error.               *)
C26_PetLookups ==
  (mode = "validate" /\ validation.status = "ok") =>
    LET checked == buildCode.professionSpecific.type = "ranger"
                   /\ metadataProvider # "noPets"
    IN /\ LookupsOf(validation.calls, "getPetInfo")
            = (IF checked THEN NonZero(buildCode.professionSpecific.pets)
               ELSE <<>>)
       /\ ~checked => ErrorsOfType({"INVALID_PET_ID"}) = {}
       /\ checked =>
            \A i \in 1..2 :
              LET petId == buildCode.professionSpecific.pets[i]
              IN /\ Cardinality(PetErrorsFor(i - 1))
                      = (IF petId # 0 /\ petId \notin DOMAIN validPets
                         THEN 1 ELSE 0)
                 /\ \A n \in PetErrorsFor(i - 1) :
                      validation.errors[n].context.petId = petId

C26_Witness ==
  /\ mode = "validate"
  /\ validation.status = "ok"
  /\ metadataProvider = "mock"
  /\ buildCode.professionSpecific.type = "ranger"
  /\ buildCode.professionSpecific.pets = <<999, 0>>
  /\ LookupsOf(validation.calls, "getPetInfo") = <<999>>
  /\ Cardinality(ErrorsOfType({"INVALID_PET_ID"})) = 1

(* C27: re-encoding is stable on decoded records: for every buffer that    *)
(* decode accepts (mapper with mutually inverse directions),               *)
(* decode(encode(decode(b))) equals decode(b), Revenant buffers that take  *)
(* the flip branch included.                                               *)
C27_ReencodeStable ==
  (mode = "link" /\ mapper \in InverseMappers /\ decoded.status = "ok") =>
    /\ Settled(encoded) => encoded.status = "ok"
    /\ Settled(redecoded) =>
         /\ redecoded.status = "ok"
         /\ redecoded.value = decoded.value

(* A record as C28 describes it, but for the legend count.                 *)
WellFormedRecord(b) ==
  /\ b.profession \in 1..9
  /\ Len(b.specializations) <= 3
  /\ \A i \in 1..Len(b.specializations) :
       /\ b.specializations[i].id \in 1..255
       /\ Len(b.specializations[i].traits) = 3
       /\ \A t \in 1..3 : b.specializations[i].traits[t] \in 0..3
  /\ b.professionSpecific.type \in {"none", "ranger", "revenant"}
  /\ b.professionSpecific.type = "ranger" =>
       /\ b.profession = 4
       /\ Len(b.professionSpecific.pets) = 2
       /\ \E i \in 1..2 : b.professionSpecific.pets[i] # 0
  /\ b.professionSpecific.type = "revenant" <=> b.profession = 9
  /\ b.professionSpecific.type = "revenant" =>
       Len(b.professionSpecific.legends) \in {1, 2}
  /\ b.weapons # Absent => Len(b.weapons[1]) \in 1..255
  /\ b.skillVariants # Absent => Len(b.skillVariants[1]) \in 1..255

(* Two legends exactly when the two legend bytes are both non-zero.        *)
LegendCountMatches(b, byte28, byte29) ==
  b.professionSpecific.type = "revenant" =>
    (Len(b.professionSpecific.legends) = 2 <=> (byte28 # 0 /\ byte29 # 0))

(* C28: every record decode returns is well formed: profession in 1..9; at *)
(* most 3 specializations, each with id in 1..255 and three traits in      *)
(* 0..3; professionSpecific of type 'ranger' only when profession is 4     *)
(* (then at least one pet non-zero), of type 'revenant' exactly when       *)
(* profession is 9 (1 or 2 legends, 2 exactly when bytes 28 and 29 are     *)
(* both non-zero), never of type 'engineer'; weapons and skillVariants,    *)
(* when present, are non-empty with at most 255 entries.                   *)
C28_DecodedWellFormed ==
  /\ (mode = "link" /\ decoded.status = "ok") =>
       /\ WellFormedRecord(decoded.value)
       /\ LegendCountMatches(decoded.value, ByteAt(28), ByteAt(29))
  /\ (mode = "link" /\ decodedAlt.out.status = "ok") =>
       /\ WellFormedRecord(decodedAlt.out.value)
       /\ decodedAlt.variant = "wrapper" =>
            LegendCountMatches(decodedAlt.out.value, ByteAt(28), ByteAt(29))
  /\ redecoded.status = "ok" =>
       /\ WellFormedRecord(redecoded.value)
       /\ LegendCountMatches(redecoded.value, EncodedBuffer[29], EncodedBuffer[30])

C28_Witness ==
  /\ mode = "link"
  /\ decoded.status = "ok"
  /\ ByteAt(1) = 9
  /\ ByteAt(28) # 0
  /\ ByteAt(29) # 0
  /\ Len(decoded.value.professionSpecific.legends) = 2
  /\ Len(decoded.value.specializations) = 1
  /\ decoded.value.weapons # Absent

(* C29: encode writes pet bytes only for a build whose profession is       *)
(* Ranger and legend or inactive-skill bytes only for a build whose        *)
(* profession is Revenant: for every build of any other profession, bytes  *)
(* 28-43 of the encoded buffer are all zero, whatever professionSpecific   *)
(* value the build carries.                                                *)
C29_ProfessionSpecificByProfession ==
  (mode = "build" /\ BuildLeftAlone /\ encoded.status = "ok"
     /\ buildCode.profession \notin {4, 9}) =>
    \A k \in 28..43 : EncodedBuffer[k + 1] = 0

(* What peekByte and slice do, and what an operation on one cursor does to *)
(* the other: a peek that returns gives the byte at position + k; a peek   *)
(* (one that throws too) and a slice leave the position as it was; the     *)
(* cursor slice returns starts at position + k; and a read, a skip or a    *)
(* peek on one cursor, thrown or not, leaves the position of the other.    *)
PeekSliceAndIndependence ==
  LET last == cursors.last
  IN /\ (last.op = "peekByte" /\ ~last.threw) =>
          last.value = cursors.buffer[last.before[last.cursor] + last.arg + 1]
     /\ last.op \in {"peekByte", "slice"} =>
          position(cursors.views[last.cursor]) = last.before[last.cursor]
     /\ last.op = "slice" =>
          /\ position(cursors.views["sliced"]) = last.before["view"] + last.arg
          /\ cursors.history["sliced"].start = last.before["view"] + last.arg
     /\ last.op \in {"readByte", "readUInt16LE", "skip", "peekByte"} =>
          \A n \in CursorNames \ {last.cursor} :
            position(cursors.views[n]) = last.before[n]

(* C30 with every read counted, returned or thrown: after any sequence of  *)
(* cursor operations the position equals the start offset plus 1 per       *)
(* readByte, 2 per readUInt16LE and n per skip(n);                         *)
(* peekByte(k) returns the byte at position + k and slice(k) returns a new *)
(* cursor at position + k, both leaving the position unchanged; reads and  *)
(* skips on either cursor never change the position of the other.          *)
C30_PositionPerCall ==
  mode = "cursor" =>
    /\ \A n \in CursorNames :
         Exists(n) =>
           position(cursors.views[n])
             = cursors.history[n].start
                 + (cursors.history[n].readBytes + cursors.history[n].failedBytes)
                 + 2 * (cursors.history[n].readWords
                          + cursors.history[n].failedWords)
                 + cursors.history[n].skipped
    /\ PeekSliceAndIndependence

(* C30: after any sequence of cursor operations the position equals the    *)
(* start offset plus 1 per readByte (one that throws past the end of the   *)
(* buffer included), 2 per readUInt16LE that returned (one that throws     *)
(* leaves the position as it was) and n per skip(n); peekByte(k) returns   *)
(* the byte at position + k and slice(k) returns a new cursor at           *)
(* position + k, both leaving the position unchanged, a peek that throws   *)
(* too; a cursor obtained from slice has its own position, so reads and    *)
(* skips on either cursor, thrown or not, never change the position of the *)
(* other.                                                                  *)
C30_CursorPositions ==
  mode = "cursor" =>
    /\ \A n \in CursorNames :
         Exists(n) =>
           position(cursors.views[n])
             = cursors.history[n].start
                 + (cursors.history[n].readBytes + cursors.history[n].failedBytes)
                 + 2 * cursors.history[n].readWords
                 + cursors.history[n].skipped
    /\ PeekSliceAndIndependence

C30_Witness ==
  /\ mode = "cursor"
  /\ Exists("sliced")
  /\ cursors.last.op = "readByte"
  /\ cursors.last.cursor = "sliced"
  /\ cursors.last.threw
  /\ cursors.history["sliced"].readBytes = 1
  /\ cursors.history["sliced"].failedBytes = 1
  /\ cursors.history["view"].failedWords = 1
  /\ position(cursors.views["view"]) = cursors.history["view"].start
  /\ position(cursors.views["sliced"]) = cursors.history["sliced"].start + 2

=============================================================================
